---- MODULE Spec2Model ----
(***************************************************************************)
(* Verification model of KD-System/voice-platform.                         *)
(*                                                                         *)
(* Spec        one call of a pipeline or llm_script session: the frame     *)
(*             loop of run.py, the detached start() and _process_speech    *)
(*             tasks and the FSPlayback controller, at the granularity of  *)
(*             asyncio: the code between two awaits that really suspend    *)
(*             is one atomic step.  The connection carries one UUID frame. *)
(* SpecStart   the same call with the start() task alone beside the frame  *)
(*             loop, under the fairness of the event loop: a task that can *)
(*             run is run, and an awaited external call returns or fails.  *)
(* SpecStorage the Storage facade (db/storage.py) over its three sinks,    *)
(*             with any subset of the sinks failing on every call.         *)
(* SpecVAD     EnergyVAD (core/vad.py) with its audio buffer, fed any      *)
(*             sequence of frames by the two branches of handle_audio, as  *)
(*             playback starts, ends and is stopped.                       *)
(* SpecLife    the life of a connection (run.py): any frames, any number   *)
(*             of start() tasks, stop() with its awaits, the provider      *)
(*             adapters and their connection pools, the call telemetry.    *)
(* SpecDialog  the dialog context and the transcript: the greeting of     *)
(*             start() in both sessions, the track catalog and the replies *)
(*             of the llm_script session.                                  *)
(* SpecRealtime the realtime session: its frame loop, the reader of the    *)
(*             endpoint's events and the playback of a response.           *)
(* SpecText    the sentence streamer of the LLM adapter and the splitter   *)
(*             of the TTS adapter, applied to any short text.              *)
(***************************************************************************)
EXTENDS Naturals, Integers, Sequences, FiniteSets, TLC

\* ---------------------------------------------------------------- bounds
MaxReplies == 2          \* _process_speech tasks dispatched in one call
MaxSentences == 2        \* sentences one LLM stream yields
ClipTicks == 2           \* length of a clip, in 50 ms poll ticks
MaxBargeIns == 1         \* barge-ins signaled in one call
MinSpeechFrames == 2     \* cfg["vad"]["min_speech_frames"]
SilenceFrames == 2       \* cfg["vad"]["silence_frames"]
MaxStorageOps == 3       \* telemetry operations in flight at once
MaxBuffer == 4           \* frames held in the VAD's audio buffer
MaxStarts == 2           \* start() tasks launched on one connection
MaxFrames == 3           \* frames received on one connection

VARIABLES
    cfg,        \* configuration of the robot: mode and vad.enabled
    conn,       \* handle_connection: its position, and session.uuid
    session,    \* PipelineSession / LLMScriptSession fields
    vad,        \* EnergyVAD fields
    playback,   \* FSPlayback fields
    files,      \* scratch WAV files that exist in TTS_DIR, by file index
    tasks,      \* the detached tasks: 0 is start(), 1.. are _process_speech
    last,       \* what the last step returned to its caller, if anything
    failing,    \* Storage: the sinks that throw on every call
    redis,      \* Storage: the ephemeral session hash of the call
    ops,        \* Storage: the telemetry operations dispatched
    audio_buffer, \* EnergyVAD.audio_buffer, as the sequence of its frames
    heard,      \* EnergyVAD: what feed returned last
    ws,         \* handle_connection: its position, session.uuid, counters
    starts,     \* the start() tasks launched: where each is suspended
    stopper,    \* session.stop(): where it is suspended
    engines,    \* the provider adapters the session holds
    pools,      \* the connection pools (aiohttp sessions) that are open
    reply,      \* a _process_speech task: where it is suspended
    telemetry,  \* the call events emitted to the telemetry recorder
    dialog,     \* start() and a script reply: context, transcript, clips played
    rt,         \* RealtimeSession fields, its event reader and the PBX frames
    text        \* a text given to the sentence streamer or the TTS splitter

vars == <<cfg, conn, session, vad, playback, files, tasks, last, failing, redis, ops,
          audio_buffer, heard, ws, starts, stopper, engines, pools, reply, telemetry,
          dialog, rt, text>>
sessionVars == <<cfg, conn, session, vad, playback, files, tasks, last>>
storageVars == <<failing, redis, ops>>
vadVars == <<audio_buffer, heard>>
lifeVars == <<ws, starts, stopper, engines, pools, reply, telemetry>>
dialogVars == <<dialog>>
realtimeVars == <<rt>>
textVars == <<text>>

StartTask == 0
ReplyTasks == 1..MaxReplies
TaskIds == {StartTask} \cup ReplyTasks

Modes == {"pipeline", "llm_script"}
Greetings == {"wav", "tts", "none"}
Frames == {"loud", "quiet"}      \* compute_rms(frame) > energy_threshold, or not

\* ------------------------------------------------------------ core/vad.py

\* A feed that announces the start of speech on every loud frame past the
\* threshold count, whether or not speech was already announced.
feedRestarting(v, f) ==
    IF f = "loud"
    THEN LET sc == v.speech_count + 1 IN
         IF sc >= MinSpeechFrames
         THEN [event |-> "speech_start",
               vad |-> [is_speaking |-> TRUE, speech_count |-> sc, silence_count |-> 0]]
         ELSE [event |-> "silence",
               vad |-> [v EXCEPT !.speech_count = sc, !.silence_count = 0]]
    ELSE IF v.is_speaking
         THEN IF v.silence_count + 1 >= SilenceFrames
              THEN [event |-> "speech_end",
                    vad |-> [is_speaking |-> FALSE, speech_count |-> 0, silence_count |-> 0]]
              ELSE [event |-> "speaking",
                    vad |-> [v EXCEPT !.silence_count = v.silence_count + 1]]
         ELSE [event |-> "silence", vad |-> [v EXCEPT !.speech_count = 0]]

\* EnergyVAD.feed: the event returned and the VAD afterwards.
feed(v, f) ==
    IF f = "loud"
    THEN LET sc == v.speech_count + 1 IN
         IF ~v.is_speaking /\ sc >= MinSpeechFrames
         THEN [event |-> "speech_start",
               vad |-> [is_speaking |-> TRUE, speech_count |-> sc, silence_count |-> 0]]
         ELSE IF v.is_speaking
         THEN [event |-> "speaking",
               vad |-> [v EXCEPT !.speech_count = sc, !.silence_count = 0]]
         ELSE [event |-> "silence",
               vad |-> [v EXCEPT !.speech_count = sc, !.silence_count = 0]]
    ELSE IF v.is_speaking
         THEN IF v.silence_count + 1 >= SilenceFrames
              THEN [event |-> "speech_end",
                    vad |-> [is_speaking |-> FALSE, speech_count |-> 0, silence_count |-> 0]]
              ELSE [event |-> "speaking",
                    vad |-> [v EXCEPT !.silence_count = v.silence_count + 1]]
         ELSE [event |-> "silence", vad |-> [v EXCEPT !.speech_count = 0]]

\* EnergyVAD.check_barge_in: the answer and the VAD afterwards.
check_barge_in(v, f, enabled) ==
    IF ~enabled THEN [hit |-> FALSE, vad |-> v]
    ELSE IF f = "loud"
         THEN [hit |-> v.speech_count + 1 >= MinSpeechFrames,
               vad |-> [v EXCEPT !.speech_count = v.speech_count + 1]]
         ELSE [hit |-> FALSE, vad |-> [v EXCEPT !.speech_count = 0]]

\* EnergyVAD.start_listening_after_barge_in.
start_listening_after_barge_in(v) ==
    [is_speaking |-> TRUE, speech_count |-> 0, silence_count |-> 0]

\* The counters of the VAD grow with every loud frame; frames are taken
\* while speech_count is at most MinSpeechFrames.
FrameAllowed(f) == f = "quiet" \/ vad.speech_count <= MinSpeechFrames

\* EnergyVAD.feed on the audio buffer buf of the VAD v (lines 63-64, 68,
\* 75-80): the buffer afterwards and the audio returned with speech_end.
\* The frame that starts the speech replaces the buffer; frames are
\* appended while speaking; reset() empties it.
feed_buffer(v, buf, f) ==
    IF f = "loud"
    THEN IF ~v.is_speaking /\ v.speech_count + 1 >= MinSpeechFrames
         THEN [buffer |-> <<f>>, audio |-> <<>>]
         ELSE IF v.is_speaking
         THEN [buffer |-> Append(buf, f), audio |-> <<>>]
         ELSE [buffer |-> buf, audio |-> <<>>]
    ELSE IF v.is_speaking
         THEN IF v.silence_count + 1 >= SilenceFrames
              THEN [buffer |-> <<>>, audio |-> Append(buf, f)]
              ELSE [buffer |-> Append(buf, f), audio |-> <<>>]
         ELSE [buffer |-> buf, audio |-> <<>>]

\* What the frame handlers have seen: the event feed returned last ("none"
\* after check_barge_in without a barge-in, "barge_in" with one), the audio
\* that came with speech_end, the speech_start events returned since the
\* last speech_end, the frame handled last, the loud frames in a row that
\* end with it (counted up to MinSpeechFrames), playback.is_playing, the
\* barge-ins signaled since the last speech_end (counted up to 2), the
\* barge-in whose frame heads the audio buffer (0: none), and the frames fed
\* since the first of these barge-ins.
NoHeard == [event |-> "none", audio |-> <<>>, starts |-> 0, frame |-> "none",
            run |-> 0, playing |-> FALSE, barge |-> 0, origin |-> 0, fed |-> 0]

\* The frames a connection delivers to the VAD: loud, quiet, or without
\* any sample (compute_rms returns 0.0 for less than two bytes).
VadFrames == Frames \cup {"empty"}

\* len(audio_buffer), in frames that hold samples.
Bytes(buf) == Cardinality({i \in 1..Len(buf) : buf[i] # "empty"})

\* The account of the barge-ins ends with the utterance.
Settled == IF heard.event = "speech_end"
           THEN [heard EXCEPT !.barge = 0, !.origin = 0, !.fed = 0]
           ELSE heard

Heard(event, audio, f) ==
    [Settled EXCEPT
       !.event = event, !.audio = audio, !.frame = f,
       !.starts = CASE event = "speech_start" -> heard.starts + 1
                    [] event = "speech_end" -> 0
                    [] OTHER -> heard.starts,
       !.run = IF f # "loud" THEN 0
               ELSE IF heard.run < MinSpeechFrames THEN heard.run + 1 ELSE heard.run]

\* A restart of the VAD that leaves the audio buffer empty.
bytearrayEmpty(pcm_chunk) == <<>>

\* bytearray(pcm_chunk): the buffer that holds the one frame.
bytearray(pcm_chunk) == <<pcm_chunk>>

\* handle_audio's listening branch on one frame (session_pipeline.py line
\* 256): the frame is fed to the VAD.
VadFeed(f) ==
    /\ ~heard.playing
    /\ FrameAllowed(f)
    /\ Len(audio_buffer) < MaxBuffer
    /\ LET r == feed(vad, f)
           b == feed_buffer(vad, audio_buffer, f)
           h == Heard(r.event, b.audio, f)
       IN  /\ vad' = r.vad
           /\ audio_buffer' = b.buffer
           /\ heard' = [h EXCEPT
                          !.origin = IF r.event = "speech_start" THEN 0 ELSE @,
                          !.fed = IF h.barge > 0 THEN @ + 1 ELSE @]
    /\ UNCHANGED <<cfg, conn, session, playback, files, tasks, last>>
    /\ UNCHANGED <<storageVars, lifeVars, dialogVars, realtimeVars, textVars>>

\* handle_audio's branch during playback on one frame (session_pipeline.py
\* lines 244-253): the barge-in test, and on a barge-in playback.stop(),
\* which clears is_playing unless its subprocess fails (playback.py lines
\* 76-87), and the restart of the VAD on that frame (vad.py lines 100-105).
VadBargeIn(f, outcome) ==
    /\ heard.playing
    /\ FrameAllowed(f)
    /\ LET c == check_barge_in(vad, f, TRUE)
           h == Heard(IF c.hit THEN "barge_in" ELSE "none", <<>>, f)
           n == IF h.barge < 2 THEN h.barge + 1 ELSE h.barge
       IN IF c.hit
          THEN /\ vad' = start_listening_after_barge_in(c.vad)
               /\ audio_buffer' = bytearray(f)
               /\ heard' = [h EXCEPT !.playing = (outcome = "exc"),
                                     !.barge = n, !.origin = n]
          ELSE /\ vad' = c.vad
               /\ heard' = h
               /\ UNCHANGED audio_buffer
    /\ UNCHANGED <<cfg, conn, session, playback, files, tasks, last>>
    /\ UNCHANGED <<storageVars, lifeVars, dialogVars, realtimeVars, textVars>>

\* A reply begins to play a clip (playback.py line 47).  After a barge-in
\* barge_in_triggered keeps the replies silent (session_pipeline.py lines
\* 308 and 334) until the next utterance is dispatched.
VadPlay ==
    /\ ~heard.playing
    /\ Settled.barge = 0
    /\ heard' = [Settled EXCEPT !.event = "none", !.audio = <<>>, !.playing = TRUE]
    /\ UNCHANGED <<vad, audio_buffer>>
    /\ UNCHANGED <<cfg, conn, session, playback, files, tasks, last>>
    /\ UNCHANGED <<storageVars, lifeVars, dialogVars, realtimeVars, textVars>>

\* The clip has played to its end (playback.py lines 58-63).
VadPlayEnd ==
    /\ heard.playing
    /\ heard' = [Settled EXCEPT !.event = "none", !.audio = <<>>, !.playing = FALSE]
    /\ UNCHANGED <<vad, audio_buffer>>
    /\ UNCHANGED <<cfg, conn, session, playback, files, tasks, last>>
    /\ UNCHANGED <<storageVars, lifeVars, dialogVars, realtimeVars, textVars>>

\* -------------------------------------------------------------- the tasks

\* pc: where the task is suspended; sentence_num, idx (of wav_path) and
\* elapsed (in poll ticks) are the locals of _process_speech and play_pcm;
\* cancelledAt is the sentence_num the task had when a barge-in was signaled
\* during its playback (0: none was); turns0 is the session's total_turns
\* when the task was dispatched, kept until the recognizer has answered.
NoTask == [pc |-> "idle", sentence_num |-> 0, idx |-> 0, elapsed |-> 0, cancelledAt |-> 0,
           turns0 |-> 0]

\* The values of last: nothing returned, FSPlayback.stop returned, or
\* play_pcm returned ret ("true", "false") or raised ("raised"); file says
\* whether its scratch file exists as it leaves, ok whether the broadcast
\* command succeeded, and full whether the wait loop ran for the clip's
\* duration.
NoEvent == [op |-> "none"]
StopEvent == [op |-> "stop"]
\* A reply returned because the recognizer gave no text or failed; turns0 is
\* total_turns as it was when the utterance was dispatched.
AsrEvent(turns0) == [op |-> "asr_return", turns0 |-> turns0]
\* A pipeline reply left its sentence loop after taking sentences of the
\* stream; appended says whether it appended the assistant turn to the
\* dialog context and transcript (session_pipeline.py lines 343-357).
ReplyEvent(sentences, appended) ==
    [op |-> "reply_end", sentences |-> sentences, appended |-> appended]
PlayEvent(ret, file, ok, full) ==
    [op |-> "play_pcm", ret |-> ret, file |-> file, ok |-> ok, full |-> full]

InPlay(t) == tasks[t].pc \in {"bcast", "sleep"}
Running(t) == tasks[t].pc \notin {"idle", "new", "done", "failed"}

\* A caller that an exception of play_pcm ends whether or not it awaits
\* play_pcm inside a try.
AfterPlayAborting(t, tr, raised, caught) ==
    IF raised
    THEN [task |-> [tr EXCEPT !.pc = "failed"], greeting_done |-> session.greeting_done]
    ELSE IF t = StartTask
    THEN [task |-> [tr EXCEPT !.pc = "done"], greeting_done |-> TRUE]
    ELSE [task |-> [tr EXCEPT !.pc = IF cfg.mode = "pipeline" THEN "llm" ELSE "done"],
          greeting_done |-> session.greeting_done]

\* Where task t goes on when the play_pcm it awaited has returned, or has
\* raised (caught says whether the call is inside a try).  start() goes on to
\* greeting_done = True (session_pipeline.py line 173), the pipeline reply
\* to the next sentence of the stream (line 307), the script reply to its
\* end.  A task whose play_pcm raised outside a try ends there.
AfterPlay(t, tr, raised, caught) ==
    IF raised /\ ~caught
    THEN [task |-> [tr EXCEPT !.pc = "failed"], greeting_done |-> session.greeting_done]
    ELSE IF t = StartTask
    THEN [task |-> [tr EXCEPT !.pc = "done"], greeting_done |-> TRUE]
    ELSE [task |-> [tr EXCEPT !.pc = IF cfg.mode = "pipeline" THEN "llm" ELSE "done"],
          greeting_done |-> session.greeting_done]

\* -------------------------------------------------------- core/playback.py

SaveOutcomes == {"ok", "open_fails", "write_fails"}

\* The scratch files no play_pcm in flight owns.  save_wav fails in a call
\* only while there is none.
LeakedFiles == files \ {tasks[u].idx : u \in {v \in TaskIds : InPlay(v)}}

\* save_wav(wav_path, ...): wave.open creates the file, writeframes fills it.
save_wav(idx, save) == IF save = "open_fails" THEN files ELSE files \cup {idx}

\* play_pcm up to its first await (lines 33-50), called by task t whose
\* record is tr: the file counter is taken, the scratch file written,
\* is_playing set and the broadcast command dispatched.  An error of save_wav
\* leaves play_pcm as an exception: line 44 is outside the try.  caught says
\* whether the caller awaits play_pcm inside a try.
play_pcm_enter(t, tr, save, caught) ==
    LET idx == playback.file_counter IN
    /\ save # "ok" => LeakedFiles = {}
    /\ files' = save_wav(idx, save)
    /\ IF save = "ok"
       THEN /\ playback' = [playback EXCEPT !.file_counter = idx + 1,
                                            !.is_playing = TRUE]
            /\ tasks' = [tasks EXCEPT ![t] = [tr EXCEPT !.pc = "bcast", !.idx = idx,
                                                        !.elapsed = 0]]
            /\ last' = NoEvent
            /\ UNCHANGED session
       ELSE LET after == AfterPlay(t, tr, TRUE, caught) IN
            /\ playback' = [playback EXCEPT !.file_counter = idx + 1]
            /\ tasks' = [tasks EXCEPT ![t] = after.task]
            /\ session' = [session EXCEPT !.greeting_done = after.greeting_done]
            /\ last' = PlayEvent("raised", idx \in files', FALSE, FALSE)

\* A play_pcm whose finally clause removes the file and leaves is_playing.
play_pcm_returnPlaying(t, tr, r, ok) ==
    LET after == AfterPlay(t, [tr EXCEPT !.idx = 0, !.elapsed = 0], FALSE, FALSE) IN
    /\ UNCHANGED playback
    /\ files' = files \ {tr.idx}
    /\ tasks' = [tasks EXCEPT ![t] = after.task]
    /\ session' = [session EXCEPT !.greeting_done = after.greeting_done]
    /\ last' = PlayEvent(IF r THEN "true" ELSE "false", tr.idx \in files', ok,
                         ok /\ tr.elapsed >= ClipTicks)

\* play_pcm returning r (lines 57, 65, 68) through its finally (lines 69-74).
play_pcm_return(t, tr, r, ok) ==
    LET after == AfterPlay(t, [tr EXCEPT !.idx = 0, !.elapsed = 0], FALSE, FALSE) IN
    /\ playback' = [playback EXCEPT !.is_playing = FALSE]
    /\ files' = files \ {tr.idx}
    /\ tasks' = [tasks EXCEPT ![t] = after.task]
    /\ session' = [session EXCEPT !.greeting_done = after.greeting_done]
    /\ last' = PlayEvent(IF r THEN "true" ELSE "false", tr.idx \in files', ok,
                         ok /\ tr.elapsed >= ClipTicks)

\* The wait loop's test (line 61).
KeepWaiting(elapsed) == elapsed < ClipTicks /\ playback.is_playing /\ playback.is_active

\* play_pcm resumed with the answer of the broadcast command (lines 53-62).
BroadcastDone(t, outcome) ==
    /\ UNCHANGED <<storageVars, vadVars, lifeVars, dialogVars, realtimeVars, textVars>>
    /\ tasks[t].pc = "bcast"
    /\ UNCHANGED <<cfg, conn, vad>>
    /\ CASE outcome = "exc" -> play_pcm_return(t, tasks[t], FALSE, FALSE)
         [] outcome = "err" -> play_pcm_return(t, tasks[t], FALSE, FALSE)
         [] outcome = "ok" ->
              IF KeepWaiting(0)
              THEN /\ tasks' = [tasks EXCEPT ![t].pc = "sleep"]
                   /\ last' = NoEvent
                   /\ UNCHANGED <<playback, files, session>>
              ELSE play_pcm_return(t, tasks[t], playback.is_playing, TRUE)

\* play_pcm resumed from asyncio.sleep(0.05) (lines 62-65).
PollTick(t) ==
    /\ UNCHANGED <<storageVars, vadVars, lifeVars, dialogVars, realtimeVars, textVars>>
    /\ tasks[t].pc = "sleep"
    /\ UNCHANGED <<cfg, conn, vad>>
    /\ LET tr == [tasks[t] EXCEPT !.elapsed = @ + 1] IN
       IF KeepWaiting(tr.elapsed)
       THEN /\ tasks' = [tasks EXCEPT ![t] = tr]
            /\ last' = NoEvent
            /\ UNCHANGED <<playback, files, session>>
       ELSE play_pcm_return(t, tr, playback.is_playing, TRUE)

\* FSPlayback.stop resumed with the outcome of the break command (lines 83-87).
stop_done(outcome) ==
    IF outcome = "ok" THEN [playback EXCEPT !.is_playing = FALSE] ELSE playback

\* FSPlayback.close (line 104).
close(p) == [p EXCEPT !.is_active = FALSE]

\* --------------------------------------- core/sessions: start() and replies

\* start() from its first line to the await of get_caller_number
\* (session_pipeline.py lines 77-136): the providers and the playback
\* controller are constructed.
StartBegin ==
    /\ UNCHANGED <<storageVars, vadVars, lifeVars, dialogVars, realtimeVars, textVars>>
    /\ tasks[StartTask].pc = "new"
    /\ playback' = [exists |-> TRUE, is_playing |-> FALSE, is_active |-> TRUE,
                    file_counter |-> 0]
    /\ tasks' = [tasks EXCEPT ![StartTask].pc = "caller"]
    /\ UNCHANGED <<cfg, conn, session, vad, files>>
    /\ last' = NoEvent

\* start() resumed with the caller number: the greeting (lines 156-173),
\* which the configuration makes a pre-recorded WAV (awaited bare, line
\* 162), a synthesized text (_speak_text) or nothing.  run.py constructs the
\* session without a recorder, so lines 141-154 are skipped.
StartGreeting(greeting, save) ==
    /\ UNCHANGED <<storageVars, vadVars, lifeVars, dialogVars, realtimeVars, textVars>>
    /\ tasks[StartTask].pc = "caller"
    /\ UNCHANGED <<cfg, conn, vad>>
    /\ CASE greeting = "wav" -> play_pcm_enter(StartTask, tasks[StartTask], save, FALSE)
         [] greeting = "tts" ->
              /\ tasks' = [tasks EXCEPT ![StartTask].pc = "tts"]
              /\ last' = NoEvent
              /\ UNCHANGED <<session, playback, files>>
         [] greeting = "none" ->
              /\ tasks' = [tasks EXCEPT ![StartTask].pc = "done"]
              /\ session' = [session EXCEPT !.greeting_done = TRUE]
              /\ last' = NoEvent
              /\ UNCHANGED <<playback, files>>

\* _process_speech from its first line to the await of the recognizer
\* (lines 266-276).
ReplyBegin(t) ==
    /\ UNCHANGED <<storageVars, vadVars, lifeVars, dialogVars, realtimeVars, textVars>>
    /\ t \in ReplyTasks
    /\ tasks[t].pc = "new"
    /\ session' = [session EXCEPT !.total_turns = @ + 1, !.barge_in_triggered = FALSE]
    /\ tasks' = [tasks EXCEPT ![t].pc = "asr"]
    /\ UNCHANGED <<cfg, conn, vad, playback, files>>
    /\ last' = NoEvent

\* _process_speech resumed with the recognizer's answer (lines 277-307;
\* session_llm_script.py lines 279-305).
AsrDone(t, outcome) ==
    /\ UNCHANGED <<storageVars, vadVars, lifeVars, dialogVars, realtimeVars, textVars>>
    /\ t \in ReplyTasks
    /\ tasks[t].pc = "asr"
    /\ tasks' = [tasks EXCEPT ![t].pc =
                    IF outcome # "text" THEN "done"
                    ELSE IF cfg.mode = "pipeline" THEN "llm" ELSE "chat",
                                ![t].turns0 = 0]
    /\ UNCHANGED <<cfg, conn, session, vad, playback, files>>
    /\ last' = IF outcome # "text" THEN AsrEvent(tasks[t].turns0) ELSE NoEvent

\* The pipeline reply resumed by chat_stream_sentences (lines 307-324): a
\* sentence, the end of the stream, or an error.
LlmNext(t, outcome) ==
    /\ UNCHANGED <<storageVars, vadVars, lifeVars, dialogVars, realtimeVars, textVars>>
    /\ t \in ReplyTasks
    /\ tasks[t].pc = "llm"
    /\ outcome = "sentence" => tasks[t].sentence_num < MaxSentences
    /\ tasks' = [tasks EXCEPT ![t] =
                    IF outcome = "sentence" /\ session.is_active
                                            /\ ~session.barge_in_triggered
                    THEN [@ EXCEPT !.pc = "tts", !.sentence_num = @ + 1]
                    ELSE [@ EXCEPT !.pc = "done"]]
    /\ UNCHANGED <<cfg, conn, session, vad, playback, files>>
    /\ last' = IF tasks'[t].pc = "done"
               THEN ReplyEvent(tasks[t].sentence_num,
                               outcome # "exc" /\ tasks[t].sentence_num > 0)
               ELSE NoEvent

\* A task resumed by tts.synthesize: the reply's sentence (lines 324-337) or
\* the greeting of _speak_text (lines 369-375).  The playback guard of the
\* reply is line 334; _speak_text has none.  Both await play_pcm in a try.
TtsDone(t, outcome, save) ==
    /\ UNCHANGED <<storageVars, vadVars, lifeVars, dialogVars, realtimeVars, textVars>>
    /\ tasks[t].pc = "tts"
    /\ UNCHANGED <<cfg, conn, vad>>
    /\ IF outcome = "audio"
          /\ (t = StartTask \/ (session.is_active /\ ~session.barge_in_triggered))
       THEN play_pcm_enter(t, tasks[t], save, TRUE)
       ELSE LET after == AfterPlay(t, tasks[t], FALSE, TRUE) IN
            /\ tasks' = [tasks EXCEPT ![t] = after.task]
            /\ session' = [session EXCEPT !.greeting_done = after.greeting_done]
            /\ last' = NoEvent
            /\ UNCHANGED <<playback, files>>

\* The script reply resumed by llm.chat (session_llm_script.py lines
\* 305-335): a file of the track catalog, another name, or an error.
LlmChat(t, outcome, save) ==
    /\ UNCHANGED <<storageVars, vadVars, lifeVars, dialogVars, realtimeVars, textVars>>
    /\ t \in ReplyTasks
    /\ tasks[t].pc = "chat"
    /\ UNCHANGED <<cfg, conn, vad>>
    /\ IF outcome = "known" /\ session.is_active /\ ~session.barge_in_triggered
       THEN play_pcm_enter(t, tasks[t], save, FALSE)
       ELSE /\ tasks' = [tasks EXCEPT ![t].pc = "done"]
            /\ last' = NoEvent
            /\ UNCHANGED <<session, playback, files>>

\* ------------------------------------------- run.py and handle_audio

\* handle_connection taking the frame that carries the UUID (run.py lines
\* 69-76): session.uuid is set and start() launched as a task.
RecvUuid ==
    /\ UNCHANGED <<storageVars, vadVars, lifeVars, dialogVars, realtimeVars, textVars>>
    /\ conn.pc = "recv"
    /\ ~conn.uuid
    /\ conn' = [conn EXCEPT !.uuid = TRUE]
    /\ tasks' = [tasks EXCEPT ![StartTask].pc = "new"]
    /\ UNCHANGED <<cfg, session, vad, playback, files>>
    /\ last' = NoEvent

\* The reply task slot a dispatch takes.
FreeSlot == CHOOSE t \in ReplyTasks :
               tasks[t].pc = "idle" /\ \A u \in ReplyTasks : u < t => tasks[u].pc # "idle"

\* A handle_audio that takes every frame.
GreetingPendingNever == FALSE

\* "if not self.greeting_done: return" (session_pipeline.py lines 240-241,
\* session_llm_script.py lines 244-245).
GreetingPending == ~session.greeting_done

\* A frame loop that hands over the next frame while the handler of the
\* frame before is still suspended.
FrameLoopDetached == conn.pc \in {"recv", "break"}

\* "await session.handle_audio(message)" (run.py line 79): the frame loop
\* takes the next frame when the handler of the frame before has returned.
FrameLoopFree == conn.pc = "recv"

\* handle_audio on one audio frame (session_pipeline.py lines 238-262,
\* session_llm_script.py lines 242-266).  In the barge-in branch it runs up
\* to the await inside playback.stop().
handle_audio(f) ==
    /\ UNCHANGED <<storageVars, vadVars, lifeVars, dialogVars, realtimeVars, textVars>>
    /\ FrameLoopFree
    /\ conn.uuid
    /\ FrameAllowed(f)
    /\ last' = NoEvent
    /\ UNCHANGED <<cfg, files>>
    /\ IF GreetingPending
       THEN UNCHANGED <<conn, session, vad, playback, tasks>>
       ELSE IF playback.is_playing
       THEN LET c == check_barge_in(vad, f, cfg.vad_enabled) IN
            IF cfg.vad_enabled /\ c.hit
            THEN /\ session.barge_in_count < MaxBargeIns
                 /\ session' = [session EXCEPT !.barge_in_count = @ + 1,
                                               !.barge_in_triggered = TRUE]
                 /\ vad' = c.vad
                 /\ conn' = [conn EXCEPT !.pc = "break"]
                 /\ tasks' = [t \in TaskIds |->
                                IF InPlay(t)
                                THEN [tasks[t] EXCEPT !.cancelledAt = tasks[t].sentence_num]
                                ELSE tasks[t]]
                 /\ UNCHANGED playback
            ELSE /\ vad' = c.vad
                 /\ UNCHANGED <<conn, session, playback, tasks>>
       ELSE LET r == feed(vad, f) IN
            /\ vad' = r.vad
            /\ IF r.event = "speech_end"
               THEN /\ \E t \in ReplyTasks : tasks[t].pc = "idle"
                    /\ tasks' = [tasks EXCEPT ![FreeSlot].pc = "new",
                                              ![FreeSlot].turns0 = session.total_turns]
               ELSE UNCHANGED tasks
            /\ UNCHANGED <<conn, session, playback>>

\* handle_audio resumed by playback.stop() (playback.py lines 83-87, then
\* session_pipeline.py lines 250-253).
BreakDone(outcome) ==
    /\ UNCHANGED <<storageVars, vadVars, lifeVars, dialogVars, realtimeVars, textVars>>
    /\ conn.pc = "break"
    /\ playback' = stop_done(outcome)
    /\ vad' = start_listening_after_barge_in(vad)
    /\ conn' = [conn EXCEPT !.pc = "recv"]
    /\ last' = StopEvent
    /\ UNCHANGED <<cfg, session, files, tasks>>

\* The frame loop ends (close frame, connection error) and the terminator
\* runs session.stop() (run.py lines 95-100, session_pipeline.py lines
\* 175-179).
ConnClosed ==
    /\ UNCHANGED <<storageVars, vadVars, lifeVars, dialogVars, realtimeVars, textVars>>
    /\ conn.pc = "recv"
    /\ conn' = [conn EXCEPT !.pc = "stopped"]
    /\ session' = [session EXCEPT !.is_active = FALSE]
    /\ playback' = IF playback.exists THEN close(playback) ELSE playback
    /\ last' = NoEvent
    /\ UNCHANGED <<cfg, vad, files, tasks>>

\* ------------------------------------------- the other parts, at rest

\* The VAD, the connection and the telemetry recorder as constructed.
VadIdle == audio_buffer = <<>> /\ heard = NoHeard

NoFrame == [kind |-> "none", len |-> "short", head |-> "raw", pcm |-> FALSE]
NoStopper == [pc |-> "idle", snap |-> 0, k |-> 1]

LifeIdle ==
    /\ ws = [pc |-> "recv", uuid |-> FALSE, storage |-> FALSE, frames |-> 0,
             uuid_seen |-> FALSE, stop_calls |-> 0, is_active |-> TRUE,
             greeting_done |-> FALSE, file_counter |-> 0, paths |-> <<>>,
             frame |-> NoFrame, unset |-> TRUE, handled |-> "none"]
    /\ starts = <<>>
    /\ stopper = NoStopper
    /\ engines = 0
    /\ pools = {}
    /\ reply = "idle"
    /\ telemetry = <<>>

StorageIdle ==
    /\ failing = {}
    /\ redis = [exists |-> FALSE, barge_ins |-> 0]
    /\ ops = <<>>

\* A reply task of a script session that has not been dispatched.
NoReply == [pc |-> "idle", answered |-> FALSE, chosen |-> <<>>, began |-> 0,
            asr |-> "none"]

\* A session before any track, greeting or reply.
NoDialog == [mode |-> "pipeline", greeting_pcm |-> FALSE, greeting_text |-> FALSE,
             tracks |-> [n \in {} |-> n], start |-> "new", spoken |-> FALSE,
             messages |-> <<>>, transcript |-> <<>>, plays |-> <<>>,
             total_turns |-> 0, turn_metrics |-> <<>>,
             replies |-> [i \in 1..MaxReplies |-> NoReply]]
DialogIdle == dialog = NoDialog

\* A RealtimeSession as constructed (session_realtime.py lines 37-65), with
\* the frame loop of run.py and the reader of the remote endpoint's events.
NoRtEvent == [op |-> "none", reason |-> "none", arrived |-> FALSE]
NoRealtime == [pump |-> "recv", frame |-> 0, frames |-> 0,
               start |-> "idle", reader |-> "idle",
               ai_ready |-> FALSE, is_active |-> TRUE, is_playing |-> FALSE,
               response_audio |-> FALSE, elapsed |-> 0,
               inbox |-> <<>>, events |-> 0, arrived |-> FALSE, breaks |-> 0,
               sent |-> <<>>, due |-> <<>>, echo |-> {}, last |-> NoRtEvent]
RealtimeIdle == rt = NoRealtime

NoText == [op |-> "none", input |-> <<>>, max_len |-> 0, chunks |-> <<>>]
TextIdle == text = NoText

\* ------------------------------------------------------ the specification

Init ==
    /\ cfg \in [mode : Modes, vad_enabled : BOOLEAN]
    /\ conn = [pc |-> "recv", uuid |-> FALSE]
    /\ session = [is_active |-> TRUE, greeting_done |-> FALSE,
                  barge_in_triggered |-> FALSE, total_turns |-> 0,
                  barge_in_count |-> 0]
    /\ vad = [is_speaking |-> FALSE, speech_count |-> 0, silence_count |-> 0]
    /\ playback = [exists |-> FALSE, is_playing |-> FALSE, is_active |-> FALSE,
                   file_counter |-> 0]
    /\ files = {}
    /\ tasks = [t \in TaskIds |-> NoTask]
    /\ last = NoEvent
    /\ failing = {}
    /\ redis = [exists |-> FALSE, barge_ins |-> 0]
    /\ ops = <<>>
    /\ VadIdle
    /\ LifeIdle
    /\ DialogIdle
    /\ RealtimeIdle
    /\ TextIdle

\* The session as constructed (session_pipeline.py lines 30-75), for the
\* specifications of the other parts.
SessionIdle ==
    /\ cfg = [mode |-> "pipeline", vad_enabled |-> TRUE]
    /\ conn = [pc |-> "recv", uuid |-> FALSE]
    /\ session = [is_active |-> TRUE, greeting_done |-> FALSE,
                  barge_in_triggered |-> FALSE, total_turns |-> 0,
                  barge_in_count |-> 0]
    /\ playback = [exists |-> FALSE, is_playing |-> FALSE, is_active |-> FALSE,
                   file_counter |-> 0]
    /\ files = {}
    /\ tasks = [t \in TaskIds |-> NoTask]
    /\ last = NoEvent

Next ==
    \/ RecvUuid
    \/ \E f \in Frames : handle_audio(f)
    \/ \E o \in {"ok", "exc"} : BreakDone(o)
    \/ ConnClosed
    \/ StartBegin
    \/ \E g \in Greetings, s \in SaveOutcomes : StartGreeting(g, s)
    \/ \E t \in ReplyTasks : ReplyBegin(t)
    \/ \E t \in ReplyTasks, o \in {"text", "empty", "exc"} : AsrDone(t, o)
    \/ \E t \in ReplyTasks, o \in {"sentence", "end", "exc"} : LlmNext(t, o)
    \/ \E t \in TaskIds, o \in {"audio", "empty", "exc"}, s \in SaveOutcomes :
          TtsDone(t, o, s)
    \/ \E t \in ReplyTasks, o \in {"known", "unknown", "exc"}, s \in SaveOutcomes :
          LlmChat(t, o, s)
    \/ \E t \in TaskIds, o \in {"ok", "err", "exc"} : BroadcastDone(t, o)
    \/ \E t \in TaskIds : PollTick(t)

Spec == Init /\ [][Next]_vars

\* A step of the start() task (session_pipeline.py lines 77-173): its
\* begin, its greeting, and the resumptions of the _speak_text and play_pcm
\* it awaits.
StartStep ==
    \/ StartBegin
    \/ \E g \in Greetings, s \in SaveOutcomes : StartGreeting(g, s)
    \/ \E o \in {"audio", "empty", "exc"}, s \in SaveOutcomes : TtsDone(StartTask, o, s)
    \/ \E o \in {"ok", "err", "exc"} : BroadcastDone(StartTask, o)
    \/ PollTick(StartTask)

NextStart ==
    \/ RecvUuid
    \/ \E f \in Frames : handle_audio(f)
    \/ ConnClosed
    \/ StartBegin
    \/ \E g \in Greetings, s \in SaveOutcomes : StartGreeting(g, s)
    \/ \E o \in {"audio", "empty", "exc"}, s \in SaveOutcomes : TtsDone(StartTask, o, s)
    \/ \E o \in {"ok", "err", "exc"} : BroadcastDone(StartTask, o)
    \/ PollTick(StartTask)

\* The event loop runs a task that is ready, and the calls start() awaits
\* (get_caller_number, the synthesis, the broadcast command, the sleep)
\* return or fail.
SpecStart == Init /\ [][NextStart]_vars /\ WF_vars(StartStep)

\* ------------------------------------------------------------ db/storage.py

Sinks == {"pg", "mongo", "redis"}
Operations == {"on_call_start", "on_user_speech", "on_bot_response", "on_barge_in",
               "on_call_end"}

\* The sink calls of a telemetry operation, in program order, grouped as the
\* source groups them in try blocks: each block holds the calls made on one
\* sink.  tts says whether on_bot_response was given a tts_provider.
Plan(op, tts) ==
    CASE op = "on_call_start" ->
           << [sink |-> "pg", calls |-> <<"insert_call">>],
              [sink |-> "mongo", calls |-> <<"create_transcription">>],
              [sink |-> "redis", calls |-> <<"create_session", "publish_event">>] >>
      [] op = "on_user_speech" ->
           << [sink |-> "mongo", calls |-> <<"add_segment", "add_pipeline_step">>],
              [sink |-> "redis", calls |-> <<"push_message", "update_session">>] >>
      [] op = "on_bot_response" ->
           << [sink |-> "mongo",
               calls |-> IF tts THEN <<"add_segment", "add_pipeline_step", "add_pipeline_step">>
                                ELSE <<"add_segment", "add_pipeline_step">>],
              [sink |-> "redis", calls |-> <<"push_message">>] >>
      [] op = "on_barge_in" ->
           << [sink |-> "mongo", calls |-> <<"add_pipeline_step">>],
              [sink |-> "redis", calls |-> <<"get_session", "update_session">>] >>
      [] op = "on_call_end" ->
           << [sink |-> "pg", calls |-> <<"finish_call">>],
              [sink |-> "mongo", calls |-> <<"finish_transcription">>],
              [sink |-> "redis", calls |-> <<"end_session", "publish_event">>] >>

\* Whether block b of operation op is wrapped in try / except Exception:
\* every block of every operation is.
CatchesUnguardedFirstBlock(op, b) == b # 1
Catches(op, b) == TRUE

\* A telemetry operation as dispatched: it is about to make call number call
\* of block number block; session is what redis.get_session returned to it
\* (NoSession before the read and when there is no hash); received lists the
\* calls its sinks have taken; raised says that an exception left the
\* operation.
NoSession == [found |-> FALSE, barge_ins |-> 0]
NewOp(op, tts) ==
    [op |-> op, tts |-> tts, pc |-> "run", block |-> 1, call |-> 1,
     session |-> NoSession, received |-> <<>>, raised |-> FALSE]

\* The operation r after the call it was about to make: at the next call of
\* the block, or (leave: the block is left, by its except clause or by the
\* "if session" of on_barge_in, line 225) at the next block, or done.
Advance(r, leave) ==
    LET plan == Plan(r.op, r.tts) IN
    IF ~leave /\ r.call < Len(plan[r.block].calls)
    THEN [r EXCEPT !.call = @ + 1]
    ELSE IF r.block < Len(plan)
    THEN [r EXCEPT !.block = @ + 1, !.call = 1]
    ELSE [r EXCEPT !.pc = "done"]

\* RedisClient: the call's hash after method m of operation r (create_session
\* lines 41-60, update_session 62-68, end_session 76-80; hset creates the
\* hash); on_barge_in writes the count it read plus one (storage.py line 226).
RedisAfter(r, m) ==
    CASE m = "create_session" -> [exists |-> TRUE, barge_ins |-> 0]
      [] m = "update_session" /\ r.op = "on_barge_in" ->
            [exists |-> TRUE, barge_ins |-> r.session.barge_ins + 1]
      [] m \in {"update_session", "end_session"} -> [redis EXCEPT !.exists = TRUE]
      [] OTHER -> redis

\* A telemetry operation is dispatched (awaited by start() and stop(), or as
\* a fire-and-forget task by the frame handler and the reply).
StorageDispatch(op, tts) ==
    /\ Len(ops) < MaxStorageOps
    /\ tts => op = "on_bot_response"
    /\ ops' = Append(ops, NewOp(op, tts))
    /\ UNCHANGED <<failing, redis>>
    /\ UNCHANGED <<sessionVars, vadVars, lifeVars, dialogVars, realtimeVars, textVars>>

\* Operation number i makes its next sink call (storage.py lines 85-267).
\* A failing sink throws; the except clause of the block, if there is one,
\* swallows the exception and the operation goes on after the block.
StorageCall(i) ==
    /\ i \in 1..Len(ops)
    /\ ops[i].pc = "run"
    /\ UNCHANGED failing
    /\ UNCHANGED <<sessionVars, vadVars, lifeVars, dialogVars, realtimeVars, textVars>>
    /\ LET r == ops[i]
           blk == Plan(r.op, r.tts)[r.block]
           m == blk.calls[r.call]
       IN  IF blk.sink \in failing
           THEN /\ ops' = [ops EXCEPT ![i] =
                              IF Catches(r.op, r.block) THEN Advance(r, TRUE)
                              ELSE [r EXCEPT !.pc = "done", !.raised = TRUE]]
                /\ UNCHANGED redis
           ELSE LET got == [r EXCEPT !.received = Append(@, <<blk.sink, m>>),
                                      !.session = IF m # "get_session" THEN @
                                                  ELSE IF redis.exists
                                                  THEN [found |-> TRUE,
                                                        barge_ins |-> redis.barge_ins]
                                                  ELSE NoSession]
                IN  /\ ops' = [ops EXCEPT ![i] = Advance(got, m = "get_session" /\ ~got.session.found)]
                    /\ redis' = IF blk.sink = "redis" THEN RedisAfter(got, m) ELSE redis

StorageInit ==
    /\ failing \in SUBSET Sinks
    /\ redis = [exists |-> FALSE, barge_ins |-> 0]
    /\ ops = <<>>
    /\ cfg = [mode |-> "pipeline", vad_enabled |-> TRUE]
    /\ conn = [pc |-> "recv", uuid |-> FALSE]
    /\ session = [is_active |-> TRUE, greeting_done |-> FALSE,
                  barge_in_triggered |-> FALSE, total_turns |-> 0,
                  barge_in_count |-> 0]
    /\ vad = [is_speaking |-> FALSE, speech_count |-> 0, silence_count |-> 0]
    /\ playback = [exists |-> FALSE, is_playing |-> FALSE, is_active |-> FALSE,
                   file_counter |-> 0]
    /\ files = {}
    /\ tasks = [t \in TaskIds |-> NoTask]
    /\ last = NoEvent
    /\ VadIdle
    /\ LifeIdle
    /\ DialogIdle
    /\ RealtimeIdle
    /\ TextIdle

StorageNext ==
    \/ \E op \in Operations, tts \in BOOLEAN : StorageDispatch(op, tts)
    \/ \E i \in 1..MaxStorageOps : StorageCall(i)

SpecStorage == StorageInit /\ [][StorageNext]_vars

\* -------------------------------------- SpecLife: run.py, start() and stop()

\* The frames a client can send.  A binary frame is shorter than, exactly,
\* or longer than 36 bytes; its first 36 bytes are an ASCII UUID ("uuid"),
\* other ASCII text with a dash ("dashed"), ASCII text without a dash
\* ("ascii") or not ASCII ("raw"); pcm says that it is audio of the call.
\* A text frame is a JSON object with a uuid field, another JSON object, a
\* JSON number, a short token with a dash, or other text.
Lens == {"short", "exact", "long"}
Heads == {"uuid", "dashed", "ascii", "raw"}
Bodies == {"json_uuid", "json_other", "json_number", "token", "other"}
BinaryFrame(len, head, pcm) == [kind |-> "binary", len |-> len, head |-> head, pcm |-> pcm]
TextFrame(body) == [kind |-> "text", len |-> "short", head |-> body, pcm |-> FALSE]
WsFrames ==
    {BinaryFrame(l, h, TRUE) : l \in Lens, h \in Heads}
    \cup {BinaryFrame(l, "uuid", FALSE) : l \in {"exact", "long"}}
    \cup {BinaryFrame("short", "raw", FALSE)}
    \cup {TextFrame(b) : b \in Bodies}

\* Whether the frame carries the external UUID of the call.
UuidCarrying(fr) ==
    \/ fr.kind = "text" /\ fr.head \in {"json_uuid", "token"}
    \/ fr.kind = "binary" /\ fr.head = "uuid" /\ fr.len \in {"exact", "long"}

\* What handle_connection does with a frame (run.py lines 67-93) when
\* session.uuid is unset or not: "uuid" (session.uuid set, start() launched),
\* "audio" (passed to handle_audio), "ignored", or "raised" (the exception
\* ends the frame loop).
Handling(fr, unset) ==
    IF fr.kind = "binary"
    THEN IF unset /\ fr.len = "long" /\ fr.head \in {"uuid", "dashed"}
         THEN "uuid" ELSE "audio"
    ELSE CASE fr.head = "json_uuid" -> "uuid"
           [] fr.head = "json_other" -> "ignored"
           [] fr.head = "json_number" -> "raised"
           [] fr.head = "token" -> "uuid"
           [] fr.head = "other" -> "ignored"

\* The adapters in the order stop() closes them (session_pipeline.py line 229).
Kinds == <<"asr", "tts", "llm">>

\* The connection once another step than the handling of a frame is taken:
\* frame, unset and handled describe the frame just handled, if any.
Past(w) == [w EXCEPT !.frame = NoFrame, !.unset = TRUE, !.handled = "none"]

\* Whether the terminator of handle_connection runs session.stop() when the
\* frame loop ends by cause: a close frame ("close"), a connection error
\* ("error") or an exception of the frame handling ("exception").  The
\* call is in the finally clause (run.py lines 99-100).
RunsStopOnErrors(cause) == cause # "close"
RunsStop(cause) == TRUE

\* The adapter of kind k that the session holds opens its connection pool
\* if it has none (_get_session, llm/yandex.py lines 19-22).
GetSession(k) == pools \cup {<<k, engines>>}

\* stop()'s cleanup loop from position k over the adapters snap that the
\* session held when the loop began (session_pipeline.py lines 229-234):
\* adapters without an open pool are passed without suspending; the next
\* open pool is closed and stop() suspends in that close().
CleanupFrom(k, snap) ==
    LET open == {j \in k..Len(Kinds) : snap > 0 /\ <<Kinds[j], snap>> \in pools} IN
    IF open = {}
    THEN /\ stopper' = [pc |-> "done", snap |-> snap, k |-> Len(Kinds) + 1]
         /\ UNCHANGED pools
    ELSE LET j == CHOOSE j \in open : \A i \in open : j <= i IN
         /\ pools' = pools \ {<<Kinds[j], snap>>}
         /\ stopper' = [pc |-> "cleanup", snap |-> snap, k |-> j + 1]

\* stop() from the Telegram report on (lines 203-234): the call log, then
\* on_call_end if the session has a recorder, then the cleanup loop.
AfterTelegram ==
    IF ws.storage
    THEN /\ telemetry' = Append(telemetry, "on_call_end")
         /\ stopper' = [stopper EXCEPT !.pc = "call_end"]
         /\ UNCHANGED pools
    ELSE /\ CleanupFrom(1, engines)
         /\ UNCHANGED telemetry

\* The frame loop ends by cause and the terminator runs: session.stop()
\* from its first line to its first await (session_pipeline.py lines
\* 175-200).  report says whether a Telegram report is sent.
Terminate(w, cause, report) ==
    IF RunsStop(cause)
    THEN /\ ws' = [w EXCEPT !.pc = "stopped", !.stop_calls = @ + 1, !.is_active = FALSE]
         /\ IF report
            THEN /\ stopper' = [stopper EXCEPT !.pc = "telegram"]
                 /\ UNCHANGED <<pools, telemetry>>
            ELSE AfterTelegram
    ELSE /\ ws' = [w EXCEPT !.pc = "stopped"]
         /\ UNCHANGED <<stopper, pools, telemetry>>

\* handle_connection takes one frame (run.py lines 66-93).  An audio frame
\* goes to handle_audio, which may find the end of an utterance (speech_end)
\* and dispatch a _process_speech task (session_pipeline.py lines 240-262).
LifeRecv(fr, speech_end, report) ==
    /\ ws.pc = "recv"
    /\ ws.frames < MaxFrames
    /\ LET how == Handling(fr, ~ws.uuid)
           w == [ws EXCEPT !.frames = @ + 1,
                           !.uuid_seen = @ \/ UuidCarrying(fr),
                           !.uuid = @ \/ how = "uuid",
                           !.frame = fr, !.unset = ~ws.uuid, !.handled = how]
       IN  /\ how = "uuid" => Len(starts) < MaxStarts
           /\ starts' = IF how = "uuid" THEN Append(starts, "new") ELSE starts
           /\ reply' = IF how = "audio" /\ ws.greeting_done /\ speech_end /\ reply = "idle"
                       THEN "new" ELSE reply
           /\ IF how = "raised"
              THEN Terminate(w, "exception", report)
              ELSE /\ ws' = w
                   /\ UNCHANGED <<stopper, pools, telemetry>>
    /\ UNCHANGED engines
    /\ UNCHANGED <<sessionVars, storageVars, vadVars, dialogVars, realtimeVars, textVars>>

\* The frame loop ends with the connection (run.py lines 95-100).
LifeClose(cause, report) ==
    /\ ws.pc = "recv"
    /\ cause \in {"close", "error"}
    /\ Terminate(Past(ws), cause, report)
    /\ UNCHANGED <<starts, engines, reply>>
    /\ UNCHANGED <<sessionVars, storageVars, vadVars, dialogVars, realtimeVars, textVars>>

\* stop() resumed after the Telegram report (lines 200-234).
LifeStopReported ==
    /\ stopper.pc = "telegram"
    /\ AfterTelegram
    /\ ws' = Past(ws)
    /\ UNCHANGED <<starts, engines, reply>>
    /\ UNCHANGED <<sessionVars, storageVars, vadVars, dialogVars, realtimeVars, textVars>>

\* stop() resumed after on_call_end, or after the close() of an adapter
\* (lines 226-234).
LifeStopCleanup ==
    /\ stopper.pc \in {"call_end", "cleanup"}
    /\ IF stopper.pc = "call_end"
       THEN CleanupFrom(1, engines)
       ELSE CleanupFrom(stopper.k, stopper.snap)
    /\ ws' = Past(ws)
    /\ UNCHANGED <<starts, engines, reply, telemetry>>
    /\ UNCHANGED <<sessionVars, storageVars, vadVars, dialogVars, realtimeVars, textVars>>

\* play_pcm names its scratch file (playback.py lines 40-42): the call_id
\* of the connection and the counter of the controller the session holds
\* now, which is then incremented.  paths lists the counters so used.
wav_path(w) == [w EXCEPT !.paths = Append(@, w.file_counter),
                         !.file_counter = @ + 1]

\* The greeting of start() (session_pipeline.py lines 156-173): a text
\* greeting is synthesized by the TTS adapter of the session, which opens
\* its pool; a recorded greeting is played; otherwise start() runs to its
\* end.
LifeGreeting(i, greeting) ==
    IF greeting = "tts"
    THEN /\ starts' = [starts EXCEPT ![i] = "greeting"]
         /\ pools' = GetSession("tts")
         /\ ws' = Past(ws)
    ELSE /\ starts' = [starts EXCEPT ![i] = "done"]
         /\ ws' = [(IF greeting = "wav" THEN wav_path(Past(ws)) ELSE Past(ws))
                     EXCEPT !.greeting_done = TRUE]
         /\ UNCHANGED pools

\* start() number i from its first line to the await of get_caller_number
\* (lines 77-136): new adapters replace the ones the session held, and a
\* new FSPlayback, whose _file_counter is 0 (playback.py line 25), replaces
\* the controller.
LifeStartBegin(i) ==
    /\ i \in 1..Len(starts)
    /\ starts[i] = "new"
    /\ starts' = [starts EXCEPT ![i] = "caller"]
    /\ engines' = i
    /\ ws' = [Past(ws) EXCEPT !.file_counter = 0]
    /\ UNCHANGED <<stopper, pools, reply, telemetry>>
    /\ UNCHANGED <<sessionVars, storageVars, vadVars, dialogVars, realtimeVars, textVars>>

\* start() resumed with the caller number (lines 137-173): on_call_start is
\* emitted and awaited if the session has a recorder, otherwise the
\* greeting follows at once.
LifeStartCaller(i, greeting) ==
    /\ i \in 1..Len(starts)
    /\ starts[i] = "caller"
    /\ IF ws.storage
       THEN /\ telemetry' = Append(telemetry, "on_call_start")
            /\ starts' = [starts EXCEPT ![i] = "call_start"]
            /\ ws' = Past(ws)
            /\ UNCHANGED pools
       ELSE /\ LifeGreeting(i, greeting)
            /\ UNCHANGED telemetry
    /\ UNCHANGED <<stopper, engines, reply>>
    /\ UNCHANGED <<sessionVars, storageVars, vadVars, dialogVars, realtimeVars, textVars>>

\* start() resumed after on_call_start (lines 153-173), or after the
\* synthesis and playback of the greeting (line 173).
LifeStartResume(i, greeting) ==
    /\ i \in 1..Len(starts)
    /\ starts[i] \in {"call_start", "greeting"}
    /\ IF starts[i] = "call_start"
       THEN LifeGreeting(i, greeting)
       ELSE /\ starts' = [starts EXCEPT ![i] = "done"]
            /\ ws' = [wav_path(Past(ws)) EXCEPT !.greeting_done = TRUE]
            /\ UNCHANGED pools
    /\ UNCHANGED <<stopper, engines, reply, telemetry>>
    /\ UNCHANGED <<sessionVars, storageVars, vadVars, dialogVars, realtimeVars, textVars>>

\* The _process_speech task runs to its next await (lines 266-341): the
\* recognizer, then the LLM stream, then the synthesis of a sentence, each
\* through the connection pool of its adapter.  The stream's sentence is
\* dropped once the session is inactive (line 308); its audio is played
\* while the session is active (lines 334-335).
LifeReply(outcome) ==
    /\ reply \in {"new", "asr", "llm", "tts"}
    /\ CASE reply = "new" ->
              /\ reply' = "asr"
              /\ pools' = GetSession("asr")
         [] reply = "asr" ->
              IF outcome = "ok"
              THEN /\ reply' = "llm"
                   /\ pools' = GetSession("llm")
              ELSE /\ reply' = "done"
                   /\ UNCHANGED pools
         [] reply = "llm" ->
              IF outcome = "ok" /\ ws.is_active
              THEN /\ reply' = "tts"
                   /\ pools' = GetSession("tts")
              ELSE /\ reply' = "done"
                   /\ UNCHANGED pools
         [] reply = "tts" ->
              /\ reply' = "done"
              /\ UNCHANGED pools
    /\ ws' = IF reply = "tts" /\ outcome = "ok" /\ ws.is_active
             THEN wav_path(Past(ws)) ELSE Past(ws)
    /\ UNCHANGED <<starts, stopper, engines, telemetry>>
    /\ UNCHANGED <<sessionVars, storageVars, vadVars, dialogVars, realtimeVars, textVars>>

\* ------------------------------------------------- SpecLife and SpecVAD

LifeInit ==
    /\ \E st \in BOOLEAN :
          ws = [pc |-> "recv", uuid |-> FALSE, storage |-> st, frames |-> 0,
                uuid_seen |-> FALSE, stop_calls |-> 0, is_active |-> TRUE,
                greeting_done |-> FALSE, file_counter |-> 0, paths |-> <<>>,
                frame |-> NoFrame, unset |-> TRUE, handled |-> "none"]
    /\ starts = <<>>
    /\ stopper = NoStopper
    /\ engines = 0
    /\ pools = {}
    /\ reply = "idle"
    /\ telemetry = <<>>
    /\ SessionIdle
    /\ vad = [is_speaking |-> FALSE, speech_count |-> 0, silence_count |-> 0]
    /\ VadIdle
    /\ StorageIdle
    /\ DialogIdle
    /\ RealtimeIdle
    /\ TextIdle

LifeNext ==
    \/ \E fr \in WsFrames, e \in BOOLEAN, r \in BOOLEAN : LifeRecv(fr, e, r)
    \/ \E c \in {"close", "error"}, r \in BOOLEAN : LifeClose(c, r)
    \/ LifeStopReported
    \/ LifeStopCleanup
    \/ \E i \in 1..MaxStarts : LifeStartBegin(i)
    \/ \E i \in 1..MaxStarts, g \in Greetings : LifeStartCaller(i, g)
    \/ \E i \in 1..MaxStarts, g \in Greetings : LifeStartResume(i, g)
    \/ \E o \in {"ok", "fail"} : LifeReply(o)

SpecLife == LifeInit /\ [][LifeNext]_vars

VadInit ==
    /\ vad = [is_speaking |-> FALSE, speech_count |-> 0, silence_count |-> 0]
    /\ VadIdle
    /\ SessionIdle
    /\ StorageIdle
    /\ LifeIdle
    /\ DialogIdle
    /\ RealtimeIdle
    /\ TextIdle

VadNext ==
    \/ \E f \in VadFrames : VadFeed(f)
    \/ \E f \in VadFrames, o \in {"ok", "exc"} : VadBargeIn(f, o)
    \/ VadPlay
    \/ VadPlayEnd

SpecVAD == VadInit /\ [][VadNext]_vars

\* ------------------------------- the dialog context and the transcript
\* (session_pipeline.py start, session_llm_script.py start, _load_tracks
\* and _process_speech)

MaxAnswerLen == 3        \* symbols in one answer of the LLM

\* The *.wav files a tracks directory may hold.
TrackFiles == {"greeting.wav", "a.wav", "b.wav"}

\* What load_wav reads from a file: its frames and the rate of its header.
load_wav(name) == [pcm |-> name, rate |-> IF name = "b.wav" THEN 16000 ELSE 8000]

\* A loader that keeps every readable file of the directory.
_load_tracksAll(dir, unreadable) ==
    [n \in {m \in dir : m \notin unreadable} |-> load_wav(n)]

\* The catalog built from a directory, some of whose files cannot be read.
_load_tracks(dir, unreadable) ==
    [n \in {m \in dir : m # "greeting.wav" /\ m \notin unreadable} |-> load_wav(n)]

\* An answer of the LLM is a string of symbols: a blank, a double quote, or
\* a file name.
AnswerSymbols == {" ", "\"", "a.wav", "greeting.wav"}
RawAnswers == UNION {[1..n -> AnswerSymbols] : n \in 1..MaxAnswerLen}

RECURSIVE lstrip(_, _)
lstrip(str, chars) ==
    IF str # <<>> /\ Head(str) \in chars THEN lstrip(Tail(str), chars) ELSE str

RECURSIVE rstrip(_, _)
rstrip(str, chars) ==
    IF str # <<>> /\ str[Len(str)] \in chars
    THEN rstrip(SubSeq(str, 1, Len(str) - 1), chars) ELSE str

strip(str, chars) == rstrip(lstrip(str, chars), chars)

\* raw_answer.strip().strip('"').strip("'").strip()
Clean(raw) == strip(strip(strip(strip(raw, {" "}), {"\""}), {"'"}), {" "})

\* chosen_file in self._tracks: a string is a key when it is one file name.
IsTrack(chosen, tracks) == Len(chosen) = 1 /\ chosen[1] \in DOMAIN tracks

AssistantMessage(content) == [role |-> "assistant", content |-> content]
UserMessage == [role |-> "user", content |-> <<"text">>]
\* A transcript line, with the reply that wrote it (0 is start()).
BotLine(form, name, turn) == [who |-> "bot", form |-> form, name |-> name, turn |-> turn]
ClientLine(turn) == [who |-> "client", form |-> "text", name |-> <<"text">>, turn |-> turn]
GreetingText == <<"greeting_text">>

\* start(), from the greeting on: a loaded greeting WAV is played first;
\* the pipeline session otherwise records and synthesizes greeting_text.
DialogGreeting ==
    /\ dialog.start = "new"
    /\ dialog' =
         IF dialog.greeting_pcm
         THEN [dialog EXCEPT !.start = "wav"]
         ELSE IF dialog.mode = "pipeline" /\ dialog.greeting_text
         THEN [dialog EXCEPT
                 !.messages = Append(@, AssistantMessage(GreetingText)),
                 !.transcript = Append(@, BotLine("text", GreetingText, 0)),
                 !.start = "tts"]
         ELSE [dialog EXCEPT !.start = "done"]
    /\ UNCHANGED <<sessionVars, storageVars, vadVars, lifeVars, realtimeVars, textVars>>

\* The greeting returns.  play_pcm of the WAV returns true ("played") or
\* false ("failed") or raises out of start(); _speak_text catches all.
DialogGreetingDone(outcome) ==
    /\ dialog.start \in {"wav", "tts"}
    /\ outcome = "raised" => dialog.start = "wav"
    /\ dialog' =
         IF dialog.start = "tts"
         THEN [dialog EXCEPT !.spoken = (outcome = "played"), !.start = "done"]
         ELSE IF outcome = "raised"
         THEN [dialog EXCEPT !.start = "dead"]
         ELSE IF dialog.mode = "pipeline" /\ dialog.greeting_text
         THEN [dialog EXCEPT
                 !.spoken = (outcome = "played"),
                 !.messages = Append(@, AssistantMessage(GreetingText)),
                 !.transcript = Append(@, BotLine("text", GreetingText, 0)),
                 !.start = "done"]
         ELSE [dialog EXCEPT !.spoken = (outcome = "played"), !.start = "done"]
    /\ UNCHANGED <<sessionVars, storageVars, vadVars, lifeVars, realtimeVars, textVars>>

\* handle_audio dispatches a script reply, which counts its turn (line 271)
\* and awaits the ASR.  began is the value total_turns took then.
ScriptReplyBegin(i) ==
    /\ dialog.mode = "llm_script"
    /\ dialog.start = "done"
    /\ dialog.replies[i].pc = "idle"
    /\ \A j \in 1..(i - 1) : dialog.replies[j].pc # "idle"
    /\ dialog' = [dialog EXCEPT !.total_turns = @ + 1,
                                !.replies[i].began = dialog.total_turns + 1,
                                !.replies[i].pc = "asr"]
    /\ UNCHANGED <<sessionVars, storageVars, vadVars, lifeVars, realtimeVars, textVars>>

\* A _process_speech that records the utterance whatever the ASR did.
AfterAsrRecording(d, i, outcome) ==
    [d EXCEPT
       !.messages = Append(@, UserMessage),
       !.transcript = Append(@, ClientLine(i)),
       !.turn_metrics = Append(@, [turn |-> d.total_turns,
                                   began |-> d.replies[i].began]),
       !.replies[i].asr = outcome,
       !.replies[i].pc = "llm"]

\* _process_speech after the ASR (session_llm_script.py lines 276-292,
\* session_pipeline.py lines 274-290): an error or an empty text ends the
\* reply; a text is recorded, with the turn total_turns holds now.
AfterAsr(d, i, outcome) ==
    IF outcome = "text"
    THEN [d EXCEPT
            !.messages = Append(@, UserMessage),
            !.transcript = Append(@, ClientLine(i)),
            !.turn_metrics = Append(@, [turn |-> d.total_turns,
                                        began |-> d.replies[i].began]),
            !.replies[i].asr = outcome,
            !.replies[i].pc = "llm"]
    ELSE [d EXCEPT !.replies[i].asr = outcome, !.replies[i].pc = "done"]

\* The ASR returns: a text is recorded, anything else ends the reply.
ScriptAsrDone(i, outcome) ==
    /\ dialog.replies[i].pc = "asr"
    /\ dialog' = AfterAsr(dialog, i, outcome)
    /\ UNCHANGED <<sessionVars, storageVars, vadVars, lifeVars, realtimeVars, textVars>>

\* llm_engine.chat raises: the reply ends.
ScriptLlmFailed(i) ==
    /\ dialog.replies[i].pc = "llm"
    /\ dialog' = [dialog EXCEPT !.replies[i].pc = "done"]
    /\ UNCHANGED <<sessionVars, storageVars, vadVars, lifeVars, realtimeVars, textVars>>

\* llm_engine.chat answers.  go is "is_active and not barge_in_triggered"
\* at that moment.
ScriptLlmDone(i, raw, go) ==
    /\ dialog.replies[i].pc = "llm"
    /\ LET chosen == Clean(raw)
           known == IsTrack(chosen, dialog.tracks)
           track == dialog.tracks[chosen[1]]
       IN dialog' =
            [dialog EXCEPT
               !.messages = Append(@, AssistantMessage(chosen)),
               !.transcript =
                   Append(@, BotLine(IF known THEN "file" ELSE "unknown", chosen, i)),
               !.plays = IF known /\ go
                         THEN Append(@, [pcm |-> track.pcm, rate |-> track.rate,
                                         turn |-> i])
                         ELSE @,
               !.replies[i] = [@ EXCEPT
                                 !.pc = IF known /\ go THEN "play" ELSE "done",
                                 !.answered = TRUE, !.chosen = chosen]]
    /\ UNCHANGED <<sessionVars, storageVars, vadVars, lifeVars, realtimeVars, textVars>>

\* play_pcm of the track returns or raises: either way the reply is over.
ScriptPlayDone(i) ==
    /\ dialog.replies[i].pc = "play"
    /\ dialog' = [dialog EXCEPT !.replies[i].pc = "done"]
    /\ UNCHANGED <<sessionVars, storageVars, vadVars, lifeVars, realtimeVars, textVars>>

\* Any robot: its mode, its greeting, and the catalog loaded from any
\* tracks directory.
DialogInit ==
    /\ \E m \in Modes, gp \in BOOLEAN, gt \in BOOLEAN,
          dir \in SUBSET TrackFiles, bad \in SUBSET {"a.wav"} :
          dialog = [NoDialog EXCEPT
                      !.mode = m, !.greeting_pcm = gp, !.greeting_text = gt,
                      !.tracks = IF m = "llm_script" THEN _load_tracks(dir, bad)
                                 ELSE NoDialog.tracks]
    /\ vad = [is_speaking |-> FALSE, speech_count |-> 0, silence_count |-> 0]
    /\ VadIdle
    /\ SessionIdle
    /\ StorageIdle
    /\ LifeIdle
    /\ RealtimeIdle
    /\ TextIdle

DialogNext ==
    \/ DialogGreeting
    \/ \E o \in {"played", "failed", "raised"} : DialogGreetingDone(o)
    \/ \E i \in 1..MaxReplies : ScriptReplyBegin(i)
    \/ \E i \in 1..MaxReplies, o \in {"text", "empty", "exc"} : ScriptAsrDone(i, o)
    \/ \E i \in 1..MaxReplies : ScriptLlmFailed(i)
    \/ \E i \in 1..MaxReplies, raw \in RawAnswers, go \in BOOLEAN :
          ScriptLlmDone(i, raw, go)
    \/ \E i \in 1..MaxReplies : ScriptPlayDone(i)

SpecDialog == DialogInit /\ [][DialogNext]_vars

\* ------------------------------------------- the realtime session
\* (core/sessions/session_realtime.py), once the call's UUID has arrived

MaxAiEvents == 4         \* events the remote endpoint sends in one call
MaxInbox == 2            \* events received and not yet read by the reader

AiEvents == {"response.output_audio.delta", "response.done",
             "input_audio_buffer.speech_started"}

\* A handle_audio that forwards every frame.
DroppedNever(r) == FALSE

\* handle_audio drops the frame during playback (echo suppression).
Dropped(r) == r.is_playing

\* What the step before has left behind.
Past_rt == [rt EXCEPT !.last = NoRtEvent]

\* handle_audio past the readiness wait: the frame is dropped or handed to
\* ai_ws.send, whose failure is swallowed.  due and echo remember how the
\* session stood when the frame was handled.
Forward(r, f) ==
    [r EXCEPT
       !.pump = "recv", !.frame = 0,
       !.sent = IF Dropped(r) THEN @ ELSE Append(@, f),
       !.due = IF ~r.is_playing /\ r.ai_ready THEN Append(@, f) ELSE @,
       !.echo = IF r.is_playing THEN @ \cup {f} ELSE @]

\* _play_response and the statements after it in the "response.done"
\* branch are over.
PlayEnd(r, reason) ==
    [r EXCEPT !.is_playing = FALSE, !.response_audio = FALSE, !.reader = "recv",
              !.elapsed = 0,
              !.last = [op |-> "play_end", reason |-> reason, arrived |-> r.arrived]]

\* run.py launches start(), which awaits the connection to the endpoint.
RtStartBegin ==
    /\ rt.start = "idle"
    /\ rt' = [Past_rt EXCEPT !.start = "connecting"]
    /\ UNCHANGED <<sessionVars, storageVars, vadVars, lifeVars, dialogVars, textVars>>

\* start() is over: connected and reading ("ok"), connected but the
\* greeting request failed ("no_reader"), or not connected ("failed").
RtStartDone(outcome) ==
    /\ rt.start = "connecting"
    /\ rt' = CASE outcome = "ok" ->
                    [Past_rt EXCEPT !.start = "done", !.ai_ready = TRUE,
                                    !.reader = "recv"]
               [] outcome = "no_reader" ->
                    [Past_rt EXCEPT !.start = "done", !.ai_ready = TRUE]
               [] OTHER -> [Past_rt EXCEPT !.start = "failed"]
    /\ UNCHANGED <<sessionVars, storageVars, vadVars, lifeVars, dialogVars, textVars>>

\* The endpoint sends an event; it waits in the socket until it is read.
RtAiEvent(ev) ==
    /\ rt.reader # "idle"
    /\ rt.events < MaxAiEvents
    /\ Len(rt.inbox) < MaxInbox
    /\ rt' = [Past_rt EXCEPT
                !.inbox = Append(@, ev), !.events = @ + 1,
                !.arrived = @ \/ (ev = "input_audio_buffer.speech_started"
                                  /\ rt.is_playing)]
    /\ UNCHANGED <<sessionVars, storageVars, vadVars, lifeVars, dialogVars, textVars>>

\* _handle_ai_response reads the next event, up to its next await.
RtRead(save) ==
    /\ rt.reader = "recv"
    /\ rt.inbox # <<>>
    /\ LET ev == Head(rt.inbox)
           r == [Past_rt EXCEPT !.inbox = Tail(@)]
       IN rt' =
            IF ~rt.is_active
            THEN [r EXCEPT !.reader = "ended"]
            ELSE CASE ev = "response.output_audio.delta" ->
                        [r EXCEPT !.response_audio = TRUE]
                   [] ev = "response.done" /\ rt.response_audio ->
                        IF save = "exc"
                        THEN [r EXCEPT !.reader = "ended", !.is_active = FALSE]
                        ELSE [r EXCEPT !.is_playing = TRUE, !.reader = "play_cli",
                                       !.elapsed = 0, !.arrived = FALSE]
                   [] ev = "response.done" /\ ~rt.response_audio -> r
                   [] OTHER ->
                        [r EXCEPT !.response_audio = FALSE,
                                  !.reader = IF rt.is_playing THEN "stop_cli"
                                             ELSE "recv"]
    /\ UNCHANGED <<sessionVars, storageVars, vadVars, lifeVars, dialogVars, textVars>>

\* The fs_cli subprocess returns: uuid_broadcast of _play_response or
\* uuid_break of _stop_playback.
RtCliDone(outcome) ==
    /\ rt.reader \in {"play_cli", "stop_cli"}
    /\ rt' =
         IF rt.reader = "stop_cli"
         THEN [Past_rt EXCEPT !.reader = "recv",
                 !.is_playing = IF outcome = "exc" THEN @ ELSE FALSE,
                 !.breaks = IF outcome = "exc" THEN @ ELSE 1]
         ELSE IF outcome # "ok"
         THEN PlayEnd(Past_rt, "failed")
         ELSE IF ~rt.is_active
         THEN PlayEnd(Past_rt, "inactive")
         ELSE [Past_rt EXCEPT !.reader = "play_wait"]
    /\ UNCHANGED <<sessionVars, storageVars, vadVars, lifeVars, dialogVars, textVars>>

\* asyncio.sleep(0.1) of the wait loop returns and the loop tests again.
RtPlayTick ==
    /\ rt.reader = "play_wait"
    /\ LET r == [Past_rt EXCEPT !.elapsed = @ + 1]
       IN rt' = IF r.elapsed >= ClipTicks THEN PlayEnd(r, "full")
                ELSE IF ~r.is_playing THEN PlayEnd(r, "stopped")
                ELSE IF ~r.is_active THEN PlayEnd(r, "inactive")
                ELSE r
    /\ UNCHANGED <<sessionVars, storageVars, vadVars, lifeVars, dialogVars, textVars>>

\* The frame loop hands a frame to handle_audio, which waits for the
\* endpoint unless it is ready.
RtHandleAudio ==
    /\ rt.pump = "recv"
    /\ rt.frames < MaxFrames
    /\ LET f == rt.frames + 1
           r == [Past_rt EXCEPT !.frames = f]
       IN rt' = IF rt.ai_ready THEN Forward(r, f)
                ELSE [r EXCEPT !.pump = "wait_ready", !.frame = f]
    /\ UNCHANGED <<sessionVars, storageVars, vadVars, lifeVars, dialogVars, textVars>>

\* The wait for the endpoint ends: it is ready, or 5 s have passed.
RtReadyWaitEnd ==
    /\ rt.pump = "wait_ready"
    /\ rt' = IF rt.ai_ready THEN Forward(Past_rt, rt.frame)
             ELSE [Past_rt EXCEPT !.pump = "recv", !.frame = 0]
    /\ UNCHANGED <<sessionVars, storageVars, vadVars, lifeVars, dialogVars, textVars>>

\* The connection of the PBX closes: stop() clears is_active.
RtStop ==
    /\ rt.pump = "recv"
    /\ rt' = [Past_rt EXCEPT !.pump = "stopped", !.is_active = FALSE]
    /\ UNCHANGED <<sessionVars, storageVars, vadVars, lifeVars, dialogVars, textVars>>

RealtimeInit ==
    /\ RealtimeIdle
    /\ vad = [is_speaking |-> FALSE, speech_count |-> 0, silence_count |-> 0]
    /\ VadIdle
    /\ SessionIdle
    /\ StorageIdle
    /\ LifeIdle
    /\ DialogIdle
    /\ TextIdle

RealtimeNext ==
    \/ RtStartBegin
    \/ \E o \in {"ok", "no_reader", "failed"} : RtStartDone(o)
    \/ \E ev \in AiEvents : RtAiEvent(ev)
    \/ \E save \in {"ok", "exc"} : RtRead(save)
    \/ \E o \in {"ok", "fail", "exc"} : RtCliDone(o)
    \/ RtPlayTick
    \/ RtHandleAudio
    \/ RtReadyWaitEnd
    \/ RtStop

SpecRealtime == RealtimeInit /\ [][RealtimeNext]_vars

\* --------------------------------------- the texts given to the TTS
\* (llm/yandex.py chat_stream_sentences, tts/zvukogram.py _split_text)

MaxText == 8             \* characters in one streamed reply
MaxDeltas == 2           \* content deltas that deliver one reply
MaxSplitText == 5        \* characters in a text given to _split_text
MaxLen == 3              \* max_len of _split_text

\* The characters of a text: a letter, a sentence terminator, a blank.
Chars == {"a", ".", " "}
Whitespace == {" "}
Texts(n) == UNION {[1..k -> Chars] : k \in 1..n}

\* sentence_enders of the streamer (the Armenian full stop left out).
sentence_enders == {".", "!", "?", ":", ";"}
\* The terminators of _split_text (the Armenian full stop left out).
split_enders == {".", "!", "?"}

\* "if ch in sentence_enders and i > 5": the least index that may end a
\* sentence.
MinEnderIndex == 5

Min(S) == CHOOSE x \in S : \A y \in S : x <= y

\* The deltas that deliver a text cut at the given positions.
RECURSIVE Deltas(_, _)
Deltas(str, cuts) ==
    IF cuts = {} THEN <<str>>
    ELSE LET c == Min(cuts)
         IN <<SubSeq(str, 1, c)>>
              \o Deltas(SubSeq(str, c + 1, Len(str)), {d - c : d \in cuts \ {c}})

\* chat_stream_sentences: the chunks yielded for the deltas still to come,
\* given the buffer and the chunks yielded so far.  Indices of Python
\* start at 0, those of a sequence at 1.
RECURSIVE chat_stream_sentences(_, _, _)
chat_stream_sentences(deltas, buffer, yielded) ==
    IF deltas = <<>>
    THEN IF strip(buffer, Whitespace) # <<>>
         THEN Append(yielded, strip(buffer, Whitespace))
         ELSE yielded
    ELSE LET b == buffer \o Head(deltas)
             ends == {i \in 1..Len(b) :
                         b[i] \in sentence_enders /\ i - 1 > MinEnderIndex}
         IN IF ends = {}
            THEN chat_stream_sentences(Tail(deltas), b, yielded)
            ELSE LET i == Min(ends)
                     sentence == strip(SubSeq(b, 1, i), Whitespace)
                     rest == strip(SubSeq(b, i + 1, Len(b)), Whitespace)
                 IN chat_stream_sentences(Tail(deltas), rest,
                       IF sentence # <<>> THEN Append(yielded, sentence)
                       ELSE yielded)

\* full_response of _process_speech: the chunks joined by single blanks.
RECURSIVE full_response(_)
full_response(chunks) ==
    IF chunks = <<>> THEN <<>>
    ELSE IF Len(chunks) = 1 THEN chunks[1]
    ELSE chunks[1] \o <<" ">> \o full_response(Tail(chunks))

RECURSIVE Concat(_)
Concat(deltas) == IF deltas = <<>> THEN <<>> ELSE Head(deltas) \o Concat(Tail(deltas))

\* The sentences _split_text cuts a text into (lines 146-154).
RECURSIVE Sentences(_, _, _)
Sentences(str, temp, sentences) ==
    IF str = <<>>
    THEN IF strip(temp, Whitespace) # <<>>
         THEN Append(sentences, strip(temp, Whitespace))
         ELSE sentences
    ELSE LET t == Append(temp, Head(str))
         IN IF Head(str) \in split_enders /\ Len(t) > 1
            THEN Sentences(Tail(str), <<>>, Append(sentences, strip(t, Whitespace)))
            ELSE Sentences(Tail(str), t, sentences)

\* The chunks _split_text packs the sentences into (lines 156-165).
RECURSIVE Pack(_, _, _, _)
Pack(sentences, current, chunks, max_len) ==
    IF sentences = <<>>
    THEN IF current # <<>> THEN Append(chunks, current) ELSE chunks
    ELSE LET sentence == Head(sentences)
         IN IF Len(current) + Len(sentence) + 1 <= max_len
            THEN Pack(Tail(sentences),
                      IF current # <<>>
                      THEN strip(current \o <<" ">> \o sentence, Whitespace)
                      ELSE sentence,
                      chunks, max_len)
            ELSE Pack(Tail(sentences), sentence,
                      IF current # <<>> THEN Append(chunks, current) ELSE chunks,
                      max_len)

_split_text(str, max_len) ==
    IF Len(str) <= max_len THEN <<str>>
    ELSE LET chunks == Pack(Sentences(str, <<>>, <<>>), <<>>, <<>>, max_len)
         IN IF chunks # <<>> THEN chunks ELSE <<SubSeq(str, 1, max_len)>>

\* The streamer runs over the deltas of a reply.
StreamSentences ==
    /\ text.op = "stream"
    /\ text' = [text EXCEPT !.op = "streamed",
                            !.chunks = chat_stream_sentences(text.input, <<>>, <<>>)]
    /\ UNCHANGED <<sessionVars, storageVars, vadVars, lifeVars, dialogVars, realtimeVars>>

\* synthesize splits its text.
SplitText ==
    /\ text.op = "split"
    /\ text' = [text EXCEPT !.op = "chunked",
                            !.chunks = _split_text(text.input[1], text.max_len)]
    /\ UNCHANGED <<sessionVars, storageVars, vadVars, lifeVars, dialogVars, realtimeVars>>

\* Any reply delivered in any deltas, or any text with any max_len.
TextInit ==
    /\ \/ \E str \in Texts(MaxText) :
             \E cuts \in {c \in SUBSET (1..(Len(str) - 1)) :
                             Cardinality(c) < MaxDeltas} :
                text = [NoText EXCEPT !.op = "stream", !.input = Deltas(str, cuts)]
       \/ \E str \in Texts(MaxSplitText), n \in 1..MaxLen :
             text = [NoText EXCEPT !.op = "split", !.input = <<str>>, !.max_len = n]
    /\ vad = [is_speaking |-> FALSE, speech_count |-> 0, silence_count |-> 0]
    /\ VadIdle
    /\ SessionIdle
    /\ StorageIdle
    /\ LifeIdle
    /\ DialogIdle
    /\ RealtimeIdle

TextNext ==
    \/ StreamSentences
    \/ SplitText

SpecText == TextInit /\ [][TextNext]_vars

\* ------------------------------------------------- claims on the session

\* C1: in a pipeline session, once handle_audio has signaled a barge-in
\* during a reply's playback, the _process_speech task producing that reply
\* never again calls tts.synthesize or playback.play_pcm: a task cancelled
\* at sentence k is never awaiting the synthesis or the playback of a later
\* sentence.
C1_CancelledReplyStaysSilent ==
    \A t \in ReplyTasks :
        (tasks[t].cancelledAt > 0 /\ tasks[t].pc \in {"tts", "bcast", "sleep"})
            => tasks[t].sentence_num <= tasks[t].cancelledAt

\* C2: per call, at most one _process_speech task is running at any time
\* (pipeline and script variants).
C2_OneReplyAtATime == Cardinality({t \in ReplyTasks : Running(t)}) <= 1

\* C3: playback is serial within a session: at most one play_pcm invocation
\* on the session's playback controller is in flight at any time.
C3_PlaybackSerial == Cardinality({t \in TaskIds : InPlay(t)}) <= 1

\* C4: when the playback.stop() called by handle_audio's barge-in branch has
\* returned, playback.is_playing is false, whatever the outcome of the break
\* command.
C4_StoppedAfterBargeIn == last.op = "stop" => ~playback.is_playing

\* C5: after playback.close() has been called, a play_pcm call issues no
\* broadcast command and never sets is_playing to true.
C5_NoPlayAfterClose ==
    [][(playback.exists /\ ~playback.is_active) =>
            /\ \A t \in TaskIds : tasks'[t].pc = "bcast" => tasks[t].pc = "bcast"
            /\ playback'.is_playing => playback.is_playing]_vars

\* C6: in every reachable state of the playback controller, is_active=false
\* implies is_playing=false.
C6_InactiveNotPlaying == ~playback.is_active => ~playback.is_playing

\* C7: play_pcm returns true only if the broadcast command succeeded and the
\* wait loop ran for the clip's full expected duration.
C7_TrueOnlyWhenComplete ==
    (last.op = "play_pcm" /\ last.ret = "true") => (last.ok /\ last.full)

\* C8: play_pcm never raises on a playback error: it returns false with
\* is_playing=false.
C8_PlayNeverRaises ==
    last.op = "play_pcm" =>
        /\ last.ret # "raised"
        /\ ~last.ok => (last.ret = "false" /\ ~playback.is_playing)

\* C9: once a play_pcm invocation has finished (returned or raised), the
\* scratch WAV file it created no longer exists.
C9_ScratchFileDeleted == last.op = "play_pcm" => ~last.file

\* C26: the frames of a connection are handled one at a time, in their
\* order: while a handler is suspended (in playback.stop()) no other frame
\* is handled, so only its own resumption touches the VAD.
C26_OneFrameHandlerAtATime ==
    [][conn.pc = "break" => (vad' = vad \/ conn'.pc = "recv")]_vars

\* The handler of a frame is suspended in playback.stop().
C26_Witness == conn.pc = "break" /\ session.barge_in_triggered

\* C31: an audio frame handled while greeting_done is false is dropped: it
\* changes neither the VAD nor barge_in_count nor barge_in_triggered, stops
\* no playback and dispatches no _process_speech.
C31_FramesDroppedDuringGreeting ==
    [][\A f \in Frames :
          (~session.greeting_done /\ handle_audio(f)) =>
              UNCHANGED <<vad, session, playback, tasks, conn>>]_vars

\* The greeting is playing and the frame loop takes frames.
C31_Witness ==
    /\ ~session.greeting_done
    /\ playback.is_playing
    /\ conn.pc = "recv"
    /\ conn.uuid

\* ----------------------------------------------- claims on the telemetry

\* The calls operation r makes on sink s when nothing fails: for on_call_start
\* the relational insert, the document creation, and the ephemeral session
\* with its call_started event; and so on for the other operations.
\* on_barge_in updates the ephemeral session only if it read one.
ExpectedCalls(r, s) ==
    CASE r.op = "on_call_start" ->
           (CASE s = "pg" -> <<"insert_call">>
              [] s = "mongo" -> <<"create_transcription">>
              [] s = "redis" -> <<"create_session", "publish_event">>)
      [] r.op = "on_user_speech" ->
           (CASE s = "pg" -> <<>>
              [] s = "mongo" -> <<"add_segment", "add_pipeline_step">>
              [] s = "redis" -> <<"push_message", "update_session">>)
      [] r.op = "on_bot_response" ->
           (CASE s = "pg" -> <<>>
              [] s = "mongo" /\ r.tts -> <<"add_segment", "add_pipeline_step", "add_pipeline_step">>
              [] s = "mongo" /\ ~r.tts -> <<"add_segment", "add_pipeline_step">>
              [] s = "redis" -> <<"push_message">>)
      [] r.op = "on_barge_in" ->
           (CASE s = "pg" -> <<>>
              [] s = "mongo" -> <<"add_pipeline_step">>
              [] s = "redis" /\ ~r.session.found -> <<"get_session">>
              [] s = "redis" /\ r.session.found -> <<"get_session", "update_session">>)
      [] r.op = "on_call_end" ->
           (CASE s = "pg" -> <<"finish_call">>
              [] s = "mongo" -> <<"finish_transcription">>
              [] s = "redis" -> <<"end_session", "publish_event">>)

\* The calls sink s took from operation r, in order.
ReceivedBy(r, s) ==
    LET on == SelectSeq(r.received, LAMBDA c : c[1] = s)
    IN  [k \in 1..Len(on) |-> on[k][2]]

C18_EmptyAsrAdvancesNoTurn ==
    last.op = "asr_return" => session.total_turns = last.turns0

\* C19: in the pipeline reply, however the synthesis or the playback of a
\* sentence ends (audio played, empty audio, synthesis error, playback
\* error), the reply goes on to request the next sentence of the stream.
C19_ReplySurvivesSentenceFailure ==
    [][\A t \in ReplyTasks :
          (/\ cfg.mode = "pipeline"
           /\ tasks[t].pc \in {"tts", "bcast", "sleep"}
           /\ tasks'[t].pc \notin {"tts", "bcast", "sleep"}) => tasks'[t].pc = "llm"]_vars

\* The playback of sentence 1 of a pipeline reply raised (its scratch file
\* could not be written) and the reply is requesting the next sentence.
C19_Witness ==
    /\ cfg.mode = "pipeline"
    /\ last.op = "play_pcm" /\ last.ret = "raised"
    /\ \E t \in ReplyTasks : tasks[t].pc = "llm" /\ tasks[t].sentence_num = 1

\* C20: when a pipeline reply leaves its sentence loop having taken at least
\* one sentence from the LLM stream, it appends the assistant turn (and
\* emits on_bot_response), also when the stream failed after some sentences.
C20_AssistantTurnAppended ==
    (last.op = "reply_end" /\ last.sentences > 0) => last.appended

\* ------------------------------------------ claims on the connection's life

\* The connection has closed, stop() has returned and every task of the
\* session has finished.
Quiet ==
    /\ ws.pc = "stopped"
    /\ stopper.pc = "done"
    /\ \A i \in 1..Len(starts) : starts[i] = "done"
    /\ reply \in {"idle", "done"}

\* C11: in a session with a telemetry recorder, once the connection has
\* closed and everything has finished, every on_call_start that was emitted
\* is followed by exactly one on_call_end, whatever the interleaving of
\* start() and stop() and the number of UUID frames.
C11_EveryCallStartEnded ==
    (ws.storage /\ Quiet) =>
        \A i \in 1..Len(telemetry) :
            telemetry[i] = "on_call_start" =>
                Cardinality({j \in 1..Len(telemetry) :
                                j > i /\ telemetry[j] = "on_call_end"}) = 1

\* C12: session.stop() is invoked exactly once per connection, when the
\* frame loop has ended, whether it ended by a close frame, a connection
\* error or an exception raised while handling a frame; and never before.
C12_StopExactlyOnce == ws.stop_calls = IF ws.pc = "stopped" THEN 1 ELSE 0

\* The frame loop was ended by an exception of the frame handling (a text
\* frame holding a JSON number) and the terminator has run stop().
C12_Witness == ws.pc = "stopped" /\ ws.handled = "raised" /\ ws.stop_calls = 1

\* C13: once the terminator has completed and all tasks of the session have
\* finished, no provider adapter the session instantiated holds an open
\* connection pool.
C13_NoPoolLeftOpen == Quiet => pools = {}

\* C14: a binary frame of at least 36 bytes whose first 36 bytes are an
\* ASCII UUID, received while the UUID is unset, sets it and launches
\* start() instead of being handled as audio; a frame of exactly 36 bytes too.
C14_UuidFrameLaunchesStart ==
    (/\ ws.frame.kind = "binary"
     /\ ws.unset
     /\ ws.frame.head = "uuid"
     /\ ws.frame.len \in {"exact", "long"}) => ws.handled = "uuid"

\* C15: as long as no UUID-carrying frame has been received, the UUID is
\* unset, no start() has been launched and no provider adapter constructed,
\* whatever bytes the audio frames contain.
C15_AudioNeverSetsUuid ==
    ~ws.uuid_seen => (~ws.uuid /\ starts = <<>> /\ engines = 0)

\* ----------------------------------------------------- claims on the VAD

\* C16: feed never returns two speech_start events without a speech_end
\* between them.
C16_NoDoubleSpeechStart == heard.starts <= 1

\* Speech was announced once and loud frames went on past the threshold
\* count while speaking.
C16_Witness ==
    /\ heard.event = "speaking"
    /\ heard.starts = 1
    /\ vad.speech_count > MinSpeechFrames

\* C17: the audio returned with speech_end begins with a frame above the
\* energy threshold and holds at least min_speech_frames such frames.
C17_UtteranceAudio ==
    heard.event = "speech_end" =>
        /\ heard.audio[1] = "loud"
        /\ Cardinality({i \in 1..Len(heard.audio) : heard.audio[i] = "loud"})
              >= MinSpeechFrames

\* ---------------------------------------------------- claims on the dialog

\* The bot lines a reply wrote into the transcript.
BotLinesOf(turn) ==
    {k \in 1..Len(dialog.transcript) :
        dialog.transcript[k].who = "bot" /\ dialog.transcript[k].turn = turn}

\* C21: in a script reply play_pcm is called only for a cleaned answer
\* that is a key of the track catalog, with the PCM and the rate of that
\* track; the catalog never holds greeting.wav; and every reply in which
\* the LLM answered wrote exactly one bot line, "[file]" for a key and
\* "[unknown: name]" otherwise.
C21_ScriptPlaysCatalogTracks ==
    /\ "greeting.wav" \notin DOMAIN dialog.tracks
    /\ \A k \in 1..Len(dialog.plays) :
          LET p == dialog.plays[k]
              chosen == dialog.replies[p.turn].chosen
          IN /\ IsTrack(chosen, dialog.tracks)
             /\ p.pcm = load_wav(chosen[1]).pcm
             /\ p.rate = load_wav(chosen[1]).rate
    /\ \A i \in 1..MaxReplies :
          dialog.replies[i].answered =>
              /\ Cardinality(BotLinesOf(i)) = 1
              /\ \A k \in BotLinesOf(i) :
                    dialog.transcript[k] =
                        BotLine(IF IsTrack(dialog.replies[i].chosen, dialog.tracks)
                                THEN "file" ELSE "unknown",
                                dialog.replies[i].chosen, i)

\* One reply played a track of the catalog and another named a file that
\* the catalog does not hold.
C21_Witness ==
    /\ \E k \in 1..Len(dialog.plays) : dialog.plays[k].pcm = "a.wav"
    /\ \E k \in 1..Len(dialog.transcript) : dialog.transcript[k].form = "unknown"
    /\ \A i \in 1..MaxReplies : dialog.replies[i].pc = "done"

\* The assistant entries that hold greeting_text, in the context and in
\* the transcript.
GreetingMessages ==
    {k \in 1..Len(dialog.messages) :
        dialog.messages[k] = AssistantMessage(GreetingText)}
GreetingLines ==
    {k \in 1..Len(dialog.transcript) :
        dialog.transcript[k] = BotLine("text", GreetingText, 0)}

\* C25: when start() has completed, a greeting that was played has left
\* exactly one assistant entry holding greeting_text in the context and in
\* the transcript if greeting_text is set and none otherwise, and a
\* greeting that was not played has left none.
C25_GreetingRecordedIffSpoken ==
    dialog.start = "done" =>
        LET n == IF dialog.spoken /\ dialog.greeting_text THEN 1 ELSE 0
        IN /\ Cardinality(GreetingMessages) = n
           /\ Cardinality(GreetingLines) = n

\* ------------------------------------------ claims on the realtime session

\* C22: a speech_started event that arrives while a response is played
\* stops the playback: the clip does not run for its full duration.
C22_SpeechStartedStopsPlayback ==
    (rt.last.op = "play_end" /\ rt.last.arrived) => rt.last.reason # "full"

RECURSIVE Words(_)
Words(str) ==
    LET w == lstrip(str, Whitespace)
        blanks == {i \in 1..Len(w) : w[i] \in Whitespace}
        n == IF blanks = {} THEN Len(w) + 1 ELSE Min(blanks)
    IN IF w = <<>> THEN <<>>
       ELSE <<SubSeq(w, 1, n - 1)>> \o Words(SubSeq(w, n, Len(w)))

\* C24: the chunks of the streamer, joined by single blanks, are the
\* concatenation of the deltas up to whitespace: the same runs of
\* characters other than whitespace, in the same order.
C24_StreamKeepsText ==
    text.op = "streamed" =>
        Words(full_response(text.chunks)) = Words(Concat(text.input))

\* The characters of a text other than whitespace, in order.
NotBlank(c) == c \notin Whitespace
Letters(str) == SelectSeq(str, NotBlank)

\* C27: every chunk of _split_text has at most max_len characters, and the
\* chunks in order hold the sentences of the text in their order.
C27_ChunksWithinLimit ==
    text.op = "chunked" =>
        /\ \A k \in 1..Len(text.chunks) : Len(text.chunks[k]) <= text.max_len
        /\ Letters(Concat(text.chunks)) = Letters(text.input[1])

\* ------------------------------------------ claims on the VAD and barge-in

\* C28: while the VAD is speaking its audio buffer is not empty, and right
\* after feed has returned speech_end the VAD is idle, with both counters 0
\* and an empty buffer.
C28_SpeakingHasAudio ==
    /\ vad.is_speaking => Bytes(audio_buffer) > 0
    /\ heard.event = "speech_end" =>
          /\ ~vad.is_speaking
          /\ vad.speech_count = 0
          /\ vad.silence_count = 0
          /\ audio_buffer = <<>>

\* An utterance that began with a barge-in and took in a frame without
\* samples has ended.
C28_Witness ==
    /\ heard.event = "speech_end"
    /\ heard.barge = 1
    /\ \E i \in 1..Len(heard.audio) : heard.audio[i] = "empty"

\* C29: check_barge_in answers true only on the last of at least
\* min_speech_frames loud frames in a row.
C29_BargeInAfterLoudRun ==
    heard.event = "barge_in" => heard.run >= MinSpeechFrames

\* C30: a barge-in on frame f leaves the VAD speaking with the buffer <<f>>,
\* and the audio of the next speech_end begins with f and holds after it
\* every frame fed since.
C30_BargeInFrameKept ==
    /\ heard.event = "barge_in" =>
          (vad.is_speaking /\ audio_buffer = <<heard.frame>>)
    /\ (heard.event = "speech_end" /\ heard.barge > 0) =>
          (heard.origin = 1 /\ Len(heard.audio) = 1 + heard.fed)

\* ------------------------------------------------- claims on the turns

\* C32: when the ASR fails with an error, the context, the transcript and
\* turn_metrics stay as they were and the reply ends without an LLM call
\* or a playback, now and later; an utterance recognized afterwards is
\* recorded and goes on to the LLM as usual.
C32_AsrErrorLeavesNoTrace ==
    [][\A i \in 1..MaxReplies :
          /\ (dialog.replies[i].pc = "asr" /\ dialog'.replies[i].asr = "exc") =>
                /\ dialog'.messages = dialog.messages
                /\ dialog'.transcript = dialog.transcript
                /\ dialog'.turn_metrics = dialog.turn_metrics
                /\ dialog'.plays = dialog.plays
                /\ dialog'.replies[i].pc = "done"
                /\ ~dialog'.replies[i].answered
          /\ dialog.replies[i].asr = "exc" =>
                dialog'.replies[i] = dialog.replies[i]
          /\ (dialog.replies[i].pc = "asr" /\ dialog'.replies[i].asr = "text") =>
                /\ dialog'.messages = Append(dialog.messages, UserMessage)
                /\ Len(dialog'.turn_metrics) = Len(dialog.turn_metrics) + 1
                /\ dialog'.replies[i].pc = "llm"]_vars

\* The ASR failed on one utterance and a later one was answered.
C32_Witness ==
    \E i, j \in 1..MaxReplies :
        /\ i < j
        /\ dialog.replies[i].asr = "exc"
        /\ dialog.replies[j].asr = "text"
        /\ dialog.replies[j].answered

\* C36: the turn indexes of turn_metrics are distinct and increase in the
\* order of appending, and each is the value total_turns took when its
\* _process_speech began.
C36_TurnIndexesIncrease ==
    \A k \in 1..Len(dialog.turn_metrics) :
        /\ dialog.turn_metrics[k].turn = dialog.turn_metrics[k].began
        /\ \A l \in 1..(k - 1) :
              dialog.turn_metrics[l].turn < dialog.turn_metrics[k].turn

\* ------------------------------------ claims on the starts of a connection

\* C33: no two playback operations use the same scratch file path: within
\* the call of a connection, whose call_id is its own, no file counter is
\* used twice.
C33_ScratchPathsDistinct ==
    \A k, l \in 1..Len(ws.paths) : k # l => ws.paths[k] # ws.paths[l]

\* C34: session.start() is launched at most once per connection, however
\* many frames carry a UUID.
C34_StartLaunchedOnce == Len(starts) <= 1

\* C35: on_call_end is never emitted before on_call_start, and once stop()
\* has begun no on_call_start is emitted, no greeting is synthesized or
\* played and no provider is constructed.
C35_NothingStartsAfterStop ==
    [][/\ \A k \in 1..Len(telemetry') : \A l \in 1..(k - 1) :
             ~(telemetry'[l] = "on_call_end" /\ telemetry'[k] = "on_call_start")
       /\ ws.stop_calls > 0 =>
             /\ engines' = engines
             /\ Len(ws'.paths) = Len(ws.paths) \/ reply # reply'
             /\ \A i \in 1..Len(starts) :
                   starts'[i] \in {"call_start", "greeting"} => starts'[i] = starts[i]]_vars

\* ------------------------------------------ claims on the barge-in's moment

\* C37: a barge-in is signaled only while the VAD is idle, so that
\* start_listening_after_barge_in never replaces the buffer of an utterance
\* in progress.
C37_BargeInOnlyWhenIdle ==
    [][\A f \in VadFrames, o \in {"ok", "exc"} :
          (VadBargeIn(f, o) /\ heard'.event = "barge_in") => ~vad.is_speaking]_vars

\* ------------------------------------------- claims on the barge-in count

\* C38: once the session hash was created and N on_barge_in operations,
\* each of which found it, have completed without a sink error, the hash's
\* barge_ins is N, however the operations overlapped.
C38_BargeInsCounted ==
    (/\ failing = {}
     /\ Len(ops) >= 1
     /\ ops[1].op = "on_call_start"
     /\ \A i \in 1..Len(ops) : ops[i].pc = "done"
     /\ \A i \in 2..Len(ops) : ops[i].op = "on_barge_in" /\ ops[i].session.found)
    => redis.barge_ins = Len(ops) - 1

\* ------------------------------------------ claims on the playing flag

\* C39: playback.is_playing is true only while a play_pcm is in flight:
\* whenever no play_pcm is executing, however the last one ended,
\* is_playing is false.
C39_PlayingOnlyInPlay ==
    playback.is_playing => \E t \in TaskIds : InPlay(t)

\* A play_pcm has returned, by its end, by a failed broadcast or after a
\* barge-in, and none is in flight.
C39_Witness ==
    /\ last.op = "play_pcm"
    /\ last.ret \in {"true", "false"}
    /\ ~playback.is_playing
    /\ \A t \in TaskIds : ~InPlay(t)

\* ------------------------------------------ claims on the end of start()

\* C40: once start() is launched, greeting_done eventually becomes true,
\* whether the greeting succeeds, fails or is skipped.
C40_GreetingEventuallyDone ==
    (tasks[StartTask].pc = "new") ~> session.greeting_done

====
